---------------------------- MODULE Spec2Model ----------------------------
(***************************************************************************)
(* State-machine model of the video chunk processor: the stability         *)
(* detector (internal/watcher), the path channel and worker pool           *)
(* (internal/app/app.go), the per-file processor (processFile), the chunk  *)
(* producer (internal/chunker), and the two external stores as seen        *)
(* through the checkpoint adapter (internal/redisstore) and the object     *)
(* store adapter (internal/s3uploader).                                    *)
(***************************************************************************)
EXTENDS Integers, Sequences, FiniteSets, TLC

(***************************************************************************)
(* Configuration values (scaled) and model bounds.                         *)
(***************************************************************************)
\* cfg.ChunkSize (CHUNK_SIZE), bytes per chunk.
ChunkSize == 2
\* The fingerprint window of fileHash (10 MiB in the code), in bytes.
HashWindow == 2
\* cfg.StabilityThreshold (STABILITY_THRESHOLD), in seconds.
StabilityThreshold == 1
\* Capacity of fileCh.
ChannelCap == 2
\* cfg.WorkerCount.
WorkerCount == 2
\* Length in bytes of the longest file content.
MaxLen == 5
\* How many calls of a behaviour fail because a store cannot be reached or a
\* read of the file fails. (A call that is handed the cancelled ctx fails
\* whatever this bound.)
MaxFaults == 1
\* How many events of the environment a behaviour holds: writes, touches and
\* removals of a watched file, kills of the process, expiries of the keys
\* that carry a TTL.
MaxEvents == 1

Workers == 1..WorkerCount

(***************************************************************************)
(* Paths, extensions, contents.                                            *)
(***************************************************************************)
\* A path of the watch directory: <<stem, extension as written>>.
VideoPath == <<"v", ".mp4">>
\* A file of the watch directory that is not a video.
NotePath == <<"n", ".TXT">>
\* A second video, of the other allowed format.
Video2Path == <<"w", ".mkv">>
Paths == {VideoPath, NotePath, Video2Path}

\* cfg.VideoFileFormats: lower-cased, dot-prefixed.
VideoFileFormats == {".mp4", ".mkv"}

\* strings.ToLower on the extensions the model uses.
ToLower(ext) ==
  CASE ext = ".MP4" -> ".mp4"
    [] ext = ".MKV" -> ".mkv"
    [] ext = ".TXT" -> ".txt"
    [] OTHER -> ext

\* filepath.Ext(file)
Ext(file) == file[2]

\* isAllowedExt with the comparison of line 348 inverted.
isAllowedExt_Inverted(file) == ToLower(Ext(file)) \notin VideoFileFormats

\* isAllowedExt(file, allowedExts)
isAllowedExt(file) == ToLower(Ext(file)) \in VideoFileFormats

\* The paths of the watch directory that name a video.
Videos == {p \in Paths : isAllowedExt(p)}

\* filepath.Base(file): the stream id. All paths are in the one watch
\* directory, so the base name is the stem plus its extension.
Base(file) == file

StreamIds == {Base(p) : p \in Paths}

\* File contents: byte sequences. NoFile: the path does not exist.
\* ContentA and ContentB differ inside the fingerprint window and in length.
NoFile == <<-1>>
ContentA == [i \in 1..MaxLen |-> 1]
ContentB == [i \in 1..(MaxLen - 2) |-> 2]
Contents == {ContentA, ContentB}

Min(a, b) == IF a < b THEN a ELSE b

\* The empty string returned for a missing key or a failed open.
NoHash == <<>>

\* fileHash(path) on a file holding `content`: a stand-in for the first 16
\* hex characters of SHA-256 over the first HashWindow bytes (injective on
\* the window, never empty for a file that opens); "" when the open fails.
fileHash(content) ==
  IF content = NoFile THEN NoHash
  ELSE <<"sha">> \o SubSeq(content, 1, Min(Len(content), HashWindow))

\* sha256.Sum256(data), hex-encoded: a tagged copy of the data.
Checksum(data) == <<"sha256", data>>

\* Number of chunks ChunkFile emits for `content`: ceil(N / ChunkSize).
NumChunks(content) ==
  IF content = NoFile THEN 0
  ELSE (Len(content) + ChunkSize - 1) \div ChunkSize

MaxChunks == NumChunks(ContentA)
ChunkIdx == 0..(MaxChunks - 1)

NoData == <<>>

\* io.ReadFull(r, buf) at chunk index idx of `content`: the n <= ChunkSize
\* bytes read starting at offset idx * ChunkSize.
ReadFull(content, idx) ==
  LET off == idx * ChunkSize
      n == IF off >= Len(content) THEN 0
           ELSE Min(ChunkSize, Len(content) - off)
  IN SubSeq(content, off + 1, off + n)

(***************************************************************************)
(* State.                                                                  *)
(***************************************************************************)
VARIABLES
  file,      \* file system: [Paths -> Contents \cup {NoFile}]
  fsEvents,  \* paths with an fsnotify event not yet read by Watcher.Start
  started,   \* Watcher.Start has scanned the directory and started its loops
  seen,      \* Watcher.seen: path -> age in seconds of the entry, -1: no entry
  hashes,    \* Watcher.hashes: path -> last fingerprint seen by rescanFiles
  mu,        \* holder of Watcher.mu: "free", "tick"
  tick,      \* the stability-tick goroutine: its position and locals
  clock,     \* the two tickers: which has a tick pending
  evloop,    \* the loop of Watcher.Start over the fsnotify events
  rescan,    \* the goroutine of periodicRescan: its position and locals
  fileCh,    \* the path channel, a FIFO of capacity ChannelCap
  pc,        \* per worker: position in Run's worker loop and in processFile
  loc,       \* per worker: processFile's local variables
  chunker,   \* per worker: the goroutine started by ChunkFile and its channel
  redis,     \* the checkpoint store, by key family
  s3,        \* the object store: chunk objects and metadata objects
  cf,        \* a call of ChunkFile on its own: arguments, producer, output
  rs,        \* a redisStore on its own: the client's keys, the last call
  sup,       \* the context Run is given, Run's position, the detector's tasks
  hist       \* bookkeeping: failed calls and events so far, what each run
             \* found when it was entered, which adapter calls happened

vars == <<file, fsEvents, started, seen, hashes, mu, tick, clock, evloop,
          rescan, fileCh, pc, loc, chunker, redis, s3, cf, rs, sup, hist>>

detVars == <<started, seen, hashes, mu, tick, clock, evloop, rescan>>
storeVars == <<redis, s3>>

NoPath == <<"", "">>
NoEntry == <<"none">>
NoProgress == -1

\* processFile's locals before the function is entered. errs: the calls of
\* the run whose error processFile drops and that failed; producerErr: the
\* run's chunk producer stopped at a read error.
InitLoc ==
  [file |-> NoPath, hash |-> NoHash, prevHash |-> NoHash, status |-> "",
   idx |-> -1, data |-> NoData, chunkMetas |-> <<>>, totalSize |-> 0,
   resets |-> 0, uploadCalls |-> {}, failed |-> FALSE, readErrs |-> {},
   markErrs |-> {}, metaCalls |-> 0, metaFailed |-> FALSE,
   errs |-> {}, producerErr |-> FALSE, outcome |-> "none"]

\* The chunk producer before ChunkFile is called. st: "reading" (in or
\* before io.ReadFull), "sending" (at the send of buf), "closed". src: the
\* bytes of the file it has open.
InitChunker == [st |-> "off", src |-> NoFile, idx |-> 0, buf |-> NoData]

\* The stability tick's goroutine between ticks. skipped: the paths for which
\* this tick logged "file already processed and hash unchanged, skipping".
\* dropped: the paths of another extension whose entry this tick deleted.
\* stable: the paths whose entry was older than debounce at line 372.
\* hash, status: filterFile's locals.
InitTick ==
  [pc |-> "idle", left |-> {}, file |-> NoPath, hash |-> NoHash,
   status |-> "", skipped |-> {}, dropped |-> {}, stable |-> {}]

\* The loop of Watcher.Start at its select, no event in hand.
InitEvloop == [pc |-> "select", file |-> NoPath]

\* periodicRescan at its select. left: the files of the glob still to be
\* looked at; file, hash: the one in hand and its fingerprint.
InitRescan == [pc |-> "idle", left |-> {}, file |-> NoPath, hash |-> NoHash]
InitClock == [tickDue |-> FALSE, rescanDue |-> FALSE]

\* The goroutines of Watcher.Start: its own loop over the fsnotify events,
\* periodicRescan, and the one of the 1 s stability tick.
Tasks == {"events", "rescan", "tick"}

\* cancelled: ctx.Done() is closed. pc: Run is at <-ctx.Done() ("Done"), at
\* wg.Wait() ("Wait") or has returned. tasks: which detector goroutines run.
InitSup ==
  [cancelled |-> FALSE, pc |-> "Done", tasks |-> [t \in Tasks |-> "running"]]

NoMeta == [total_size |-> -1, chunks |-> <<>>]

InitRedis ==
  [file_hash |-> [s \in StreamIds |-> NoHash],
   hash_ttl |-> [s \in StreamIds |-> FALSE],
   stream_status |-> [s \in StreamIds |-> ""],
   status_ttl |-> [s \in StreamIds |-> FALSE],
   ttl_order |-> [s \in StreamIds |-> "none"],
   stream_progress |-> [s \in StreamIds |-> NoProgress],
   chunk_uploaded |-> [s \in StreamIds |-> {}]]

InitS3 ==
  [chunks |-> [s \in StreamIds |-> [i \in ChunkIdx |-> NoData]],
   metadata |-> [s \in StreamIds |-> NoMeta]]

\* No call of ChunkFile on its own is under way. readErr: the producer
\* stopped at a read error (lines 54 to 56).
InitCf == [content |-> NoFile, size |-> 0, st |-> "off", idx |-> 0,
           out |-> <<>>, readErr |-> FALSE]

\* No call of a redisStore on its own: a client without keys, no call made.
NoCall == [op |-> "none", args |-> <<>>, val |-> "", err |-> "nil"]
InitRs == [data |-> <<>>, call |-> NoCall]

\* The fingerprints of the contents the file can have.
Fingerprints == {fileHash(c) : c \in Contents}

\* About a run of processFile: whether it resumes a stream whose run was
\* killed, the chunks it then found marked when it was entered, and whether
\* the file was written since it was entered.
InitRun == [resumed |-> FALSE, bits |-> {}, dirty |-> FALSE]

\* faults: failed calls so far; events: events of the environment so far.
\* run: per worker, the record of its run. killed: streams whose run was killed inside the chunk loop and not
\* completed or rewritten since. failedUpload: per stream, the indices whose
\* UploadChunk failed and that no later run without a failed upload has
\* called it for, the file not rewritten since. completed: per
\* stream and fingerprint, how often the status went from another value to
\* "completed" (2: twice or more). sinceEvent: per path, the seconds since
\* the last create, write or chmod of the file (StableAge: more than the
\* stability window, or never). emitted: per path, whether this process sent
\* the path to the channel since the file was last written or touched.
\* scanned: the paths scanExistingFiles entered in seen whose entry no event
\* has overwritten, until the first stability tick of the process begins.
\* filesInProgress: the gauge metrics.FilesInProgress. expired: the streams
\* a key of which expired. staleRead: the streams for which a run read, at
\* line 70, a stored fingerprint that is not its file's.
InitHist ==
  [faults |-> 0,
   events |-> 0,
   run |-> [w \in Workers |-> InitRun],
   killed |-> {},
   failedUpload |-> [s \in StreamIds |-> {}],
   completed |-> [s \in StreamIds |-> [h \in Fingerprints |-> 0]],
   sinceEvent |-> [p \in Paths |-> StabilityThreshold + 1],
   emitted |-> [p \in Paths |-> FALSE],
   scanned |-> {},
   filesInProgress |-> 0,
   expired |-> {},
   staleRead |-> {}]

\* The chunk indices of a file holding `content`.
ChunkSet(content) == 0..(NumChunks(content) - 1)

\* What an earlier process left in the two stores and about the video's
\* stream: nothing,
NoStream == [redis |-> InitRedis, s3 |-> InitS3, killed |-> {}]

\* the fingerprint h alone (the process was killed right after line 86 of
\* processFile),
LeftStored(h) ==
  [NoStream EXCEPT !.redis.file_hash[Base(VideoPath)] = h,
                   !.redis.hash_ttl[Base(VideoPath)] = TRUE]

\* the first k chunks of content c uploaded, marked and counted (the process
\* was killed inside the chunk loop, at the range after line 123),
LeftKilled(c, k) ==
  [redis |-> [InitRedis EXCEPT
      !.file_hash[Base(VideoPath)] = fileHash(c),
      !.hash_ttl[Base(VideoPath)] = TRUE,
      !.stream_progress[Base(VideoPath)] = k - 1,
      !.chunk_uploaded[Base(VideoPath)] = 0..(k - 1)],
   s3 |-> [InitS3 EXCEPT
      !.chunks[Base(VideoPath)] =
         [i \in ChunkIdx |-> IF i < k THEN ReadFull(c, i) ELSE NoData]],
   killed |-> {Base(VideoPath)}]

\* or the stream completed for content c by a run in which no call failed
\* (lines 86 to 132 of processFile on c).
LeftCompleted(c) ==
  [redis |-> [InitRedis EXCEPT
      !.file_hash[Base(VideoPath)] = fileHash(c),
      !.hash_ttl[Base(VideoPath)] = TRUE,
      !.stream_status[Base(VideoPath)] = "completed",
      !.status_ttl[Base(VideoPath)] = TRUE,
      !.ttl_order[Base(VideoPath)] = "hash_first",
      !.stream_progress[Base(VideoPath)] = NumChunks(c) - 1,
      !.chunk_uploaded[Base(VideoPath)] = ChunkSet(c)],
   s3 |-> [InitS3 EXCEPT
      !.chunks[Base(VideoPath)] = [i \in ChunkIdx |-> ReadFull(c, i)],
      !.metadata[Base(VideoPath)] =
         [total_size |-> Len(c),
          chunks |-> [k \in 1..NumChunks(c) |->
                       [index |-> k - 1,
                        checksum |-> Checksum(ReadFull(c, k - 1))]]]],
   killed |-> {}]

\* The process before Watcher.Start, on a directory whose video holds one of
\* `contents` and whose file of another extension one of `notes` (there is
\* no second video), with `faults` failing calls and `events` events of the
\* environment to come at most, the stores as an earlier process left them
\* (one of `lefts`).
Boot(contents, notes, faults, events, lefts) ==
  /\ file \in {f \in [Paths -> contents \cup notes \cup {NoFile}] :
                 \A p \in Paths :
                   f[p] \in IF p = VideoPath THEN contents
                            ELSE IF p = NotePath THEN notes ELSE {NoFile}}
  /\ fsEvents = {}
  /\ started = FALSE
  /\ seen = [p \in Paths |-> -1]
  /\ hashes = [p \in Paths |-> NoEntry]
  /\ mu = "free"
  /\ tick = InitTick
  /\ clock = InitClock
  /\ evloop = InitEvloop
  /\ rescan = InitRescan
  /\ fileCh = <<>>
  /\ pc = [w \in Workers |-> "idle"]
  /\ loc = [w \in Workers |-> InitLoc]
  /\ chunker = [w \in Workers |-> InitChunker]
  /\ sup = InitSup
  /\ cf = InitCf
  /\ rs = InitRs
  /\ \E left \in lefts :
       /\ redis = left.redis
       /\ s3 = left.s3
       /\ hist = [InitHist EXCEPT !.faults = MaxFaults - faults,
                               !.events = MaxEvents - events,
                               !.killed = left.killed]

(***************************************************************************)
(* Worker loop (Run) and processFile.                                      *)
(***************************************************************************)
\* A call can fail for a reason other than the cancelled ctx; hist after
\* such a failure.
CanFail == hist.faults < MaxFaults
Fail == [hist EXCEPT !.faults = @ + 1]

\* The environment can act; hist after its event.
CanDisturb == hist.events < MaxEvents
Disturb == [hist EXCEPT !.events = @ + 1]

\* The outcomes of a call that is handed ctx, which is every call processFile
\* makes on the two adapters (TRUE: the call works). The adapter hands ctx to
\* the client, which fails the call once ctx is cancelled; before that the
\* call fails when the store cannot be reached, at most MaxFaults times.
Outcomes ==
  {ok \in BOOLEAN : IF ok THEN ~sup.cancelled ELSE sup.cancelled \/ CanFail}

\* hist after a call with outcome ok.
After(ok) == IF ok \/ sup.cancelled THEN hist ELSE Fail

\* Line 72 with the status compared to a value no run writes.
AlreadyProcessed_WrongStatus(prevHash, hash, status) ==
  prevHash = hash /\ status = "complete"

\* Line 72 with the comparison of the fingerprints inverted.
AlreadyProcessed_OtherHash(prevHash, hash, status) ==
  prevHash # hash /\ status = "completed"

\* processFile line 72: the file was already processed at this fingerprint.
AlreadyProcessed(prevHash, hash, status) ==
  prevHash = hash /\ status = "completed"

\* Line 78 without its test for a stored fingerprint.
HashChanged_NoEmptyTest(prevHash, hash) ==
  prevHash # hash

\* processFile line 78: the stored fingerprint is of another content.
HashChanged(prevHash, hash) ==
  prevHash # NoHash /\ prevHash # hash

\* processFile returns: the worker is back in Run, before FilesInProgress.Dec.
Return(w, how) ==
  /\ pc' = [pc EXCEPT ![w] = "returned"]
  /\ loc' = [loc EXCEPT ![w].outcome = how]

\* A receive that takes the path sent last and leaves the older ones.
WorkerReceive_Newest(w) ==
  /\ pc[w] = "idle"
  /\ fileCh # <<>>
  /\ fileCh' = SubSeq(fileCh, 1, Len(fileCh) - 1)
  /\ pc' = [pc EXCEPT ![w] = "fileHash"]
  /\ loc' = [loc EXCEPT ![w] = [InitLoc EXCEPT !.file = fileCh[Len(fileCh)]]]
  /\ hist' = [hist EXCEPT
        !.filesInProgress = @ + 1,
        !["run"][w] =
        IF Base(fileCh[Len(fileCh)]) \in hist.killed
        THEN [resumed |-> TRUE,
              bits |-> redis.chunk_uploaded[Base(fileCh[Len(fileCh)])],
              dirty |-> FALSE]
        ELSE InitRun]
  /\ UNCHANGED <<rs, cf, sup, file, fsEvents, detVars, chunker, storeVars>>

\* case file := <-fileCh: a worker takes the oldest path, calls
\* metrics.FilesInProgress.Inc() and enters processFile.
WorkerReceive(w) ==
  /\ pc[w] = "idle"
  /\ fileCh # <<>>
  /\ fileCh' = Tail(fileCh)
  /\ pc' = [pc EXCEPT ![w] = "fileHash"]
  /\ loc' = [loc EXCEPT ![w] = [InitLoc EXCEPT !.file = Head(fileCh)]]
  /\ hist' = [hist EXCEPT
        !.filesInProgress = @ + 1,
        !["run"][w] =
        IF Base(Head(fileCh)) \in hist.killed
        THEN [resumed |-> TRUE,
              bits |-> redis.chunk_uploaded[Base(Head(fileCh))],
              dirty |-> FALSE]
        ELSE InitRun]
  /\ UNCHANGED <<rs, cf, sup, file, fsEvents, detVars, chunker, storeVars>>

\* Lines 59 to 63 without the test for an empty hash.
PF_fileHash_NoEmptyTest(w) ==
  /\ pc[w] = "fileHash"
  /\ pc' = [pc EXCEPT ![w] = "GetValue"]
  /\ loc' = [loc EXCEPT ![w].hash = fileHash(file[loc[w].file])]
  /\ UNCHANGED <<rs, cf, sup, file, fsEvents, detVars, fileCh, chunker, storeVars, hist>>

\* hash := fileHash(file); an empty hash returns at once.
PF_fileHash(w) ==
  /\ pc[w] = "fileHash"
  /\ LET h == fileHash(file[loc[w].file])
     IN IF h = NoHash
        THEN Return(w, "nohash")
        ELSE /\ pc' = [pc EXCEPT ![w] = "GetValue"]
             /\ loc' = [loc EXCEPT ![w].hash = h]
  /\ UNCHANGED <<rs, cf, sup, file, fsEvents, detVars, fileCh, chunker, storeVars, hist>>

\* prevHash, _ := redisClient.GetValue(ctx, hashKey): the error is dropped,
\* a failed call leaves prevHash "".
PF_GetValue(w) ==
  /\ pc[w] = "GetValue"
  /\ pc' = [pc EXCEPT ![w] = "GetStreamStatus"]
  /\ \E ok \in Outcomes :
       /\ loc' = [loc EXCEPT
             ![w].prevHash = IF ok THEN redis.file_hash[Base(loc[w].file)]
                             ELSE NoHash,
             ![w].errs = IF ok THEN @ ELSE @ \cup {"GetValue"}]
       /\ hist' = IF ok /\ redis.file_hash[Base(loc[w].file)]
                              \notin {NoHash, loc[w].hash}
                  THEN [hist EXCEPT !.staleRead = @ \cup {Base(loc[w].file)}]
                  ELSE After(ok)
  /\ UNCHANGED <<rs, cf, sup, file, fsEvents, detVars, fileCh, chunker, storeVars>>

\* Lines 71 to 78 without the return of lines 72 to 75: a run goes on
\* whatever it read.
PF_GetStreamStatus_NoReturn(w) ==
  /\ pc[w] = "GetStreamStatus"
  /\ pc' = [pc EXCEPT ![w] =
        IF HashChanged(loc[w].prevHash, loc[w].hash)
        THEN "DeleteKey" ELSE "SetValue"]
  /\ \E ok \in Outcomes :
       /\ loc' = [loc EXCEPT
             ![w].status = IF ok THEN redis.stream_status[Base(loc[w].file)]
                           ELSE "",
             ![w].errs = IF ok THEN @ ELSE @ \cup {"GetStreamStatus"}]
       /\ hist' = After(ok)
  /\ UNCHANGED <<rs, cf, sup, file, fsEvents, detVars, fileCh, chunker, storeVars>>

\* status, _ := redisClient.GetStreamStatus(ctx, streamID), a failed call
\* leaving status ""; then the two tests of lines 72 and 78 on what was
\* read: return, reset first, or go on.
PF_GetStreamStatus(w) ==
  /\ pc[w] = "GetStreamStatus"
  /\ \E ok \in Outcomes :
       LET status == IF ok THEN redis.stream_status[Base(loc[w].file)] ELSE ""
           errs == IF ok THEN loc[w].errs
                   ELSE loc[w].errs \cup {"GetStreamStatus"}
       IN /\ IF AlreadyProcessed(loc[w].prevHash, loc[w].hash, status)
             THEN /\ pc' = [pc EXCEPT ![w] = "returned"]
                  /\ loc' = [loc EXCEPT ![w].outcome = "skipped",
                                        ![w].errs = errs]
             ELSE /\ pc' = [pc EXCEPT ![w] =
                         IF HashChanged(loc[w].prevHash, loc[w].hash)
                         THEN "DeleteKey" ELSE "SetValue"]
                  /\ loc' = [loc EXCEPT ![w].status = status,
                                        ![w].errs = errs]
          /\ hist' = After(ok)
  /\ UNCHANGED <<rs, cf, sup, file, fsEvents, detVars, fileCh, chunker, storeVars>>

\* Line 80 without the reset of line 81 after it.
PF_DeleteKey_NoReset(w) ==
  /\ pc[w] = "DeleteKey"
  /\ \E ok \in Outcomes :
       /\ redis' = IF ok
                   THEN [redis EXCEPT !.stream_status[Base(loc[w].file)] = "",
                                      !.status_ttl[Base(loc[w].file)] = FALSE,
                           !.ttl_order[Base(loc[w].file)] = "none"]
                   ELSE redis
       /\ loc' = [loc EXCEPT ![w].resets = 1,
                             ![w].errs = IF ok THEN @ ELSE @ \cup {"DeleteKey"}]
       /\ hist' = After(ok)
  /\ pc' = [pc EXCEPT ![w] = "SetValue"]
  /\ UNCHANGED <<rs, cf, sup, file, fsEvents, detVars, fileCh, chunker, s3>>

\* redisClient.DeleteKey(ctx, statusKey), its error dropped.
PF_DeleteKey(w) ==
  /\ pc[w] = "DeleteKey"
  /\ \E ok \in Outcomes :
       /\ redis' = IF ok
                   THEN [redis EXCEPT !.stream_status[Base(loc[w].file)] = "",
                                      !.status_ttl[Base(loc[w].file)] = FALSE,
                           !.ttl_order[Base(loc[w].file)] = "none"]
                   ELSE redis
       /\ loc' = [loc EXCEPT ![w].resets = 1,
                             ![w].errs = IF ok THEN @ ELSE @ \cup {"DeleteKey"}]
       /\ hist' = After(ok)
  /\ pc' = [pc EXCEPT ![w] = "ResetProgress"]
  /\ UNCHANGED <<rs, cf, sup, file, fsEvents, detVars, fileCh, chunker, s3>>

\* redisClient.SetStreamProgress(ctx, streamID, 0), its error dropped.
PF_ResetProgress(w) ==
  /\ pc[w] = "ResetProgress"
  /\ \E ok \in Outcomes :
       /\ redis' = IF ok
                   THEN [redis EXCEPT !.stream_progress[Base(loc[w].file)] = 0]
                   ELSE redis
       /\ loc' = [loc EXCEPT
             ![w].resets = 2,
             ![w].errs = IF ok THEN @ ELSE @ \cup {"ResetProgress"}]
       /\ hist' = After(ok)
  /\ pc' = [pc EXCEPT ![w] = "SetValue"]
  /\ UNCHANGED <<rs, cf, sup, file, fsEvents, detVars, fileCh, chunker, s3>>

\* redisClient.SetValue(ctx, hashKey, hash, 7*24*time.Hour), its error
\* dropped.
PF_SetValue(w) ==
  /\ pc[w] = "SetValue"
  /\ \E ok \in Outcomes :
       /\ redis' = IF ok
                   THEN [redis EXCEPT
                           !.file_hash[Base(loc[w].file)] = loc[w].hash,
                           !.hash_ttl[Base(loc[w].file)] = TRUE,
                           !.ttl_order[Base(loc[w].file)] =
                              IF redis.status_ttl[Base(loc[w].file)]
                              THEN "status_first" ELSE "none"]
                   ELSE redis
       /\ loc' = [loc EXCEPT ![w].errs = IF ok THEN @ ELSE @ \cup {"SetValue"}]
       /\ hist' = After(ok)
  /\ pc' = [pc EXCEPT ![w] = "ChunkFile"]
  /\ UNCHANGED <<rs, cf, sup, file, fsEvents, detVars, fileCh, chunker, s3>>

\* Lines 89 to 94 without the return of line 93: after a failed open the
\* range finds no chunk.
PF_ChunkFile_IgnoreError(w) ==
  /\ pc[w] = "ChunkFile"
  /\ pc' = [pc EXCEPT ![w] = "range"]
  /\ chunker' = [chunker EXCEPT ![w] =
        IF file[loc[w].file] = NoFile
        THEN [InitChunker EXCEPT !.st = "closed"]
        ELSE [InitChunker EXCEPT !.st = "reading", !.src = file[loc[w].file]]]
  /\ UNCHANGED <<rs, cf, sup, file, fsEvents, detVars, fileCh, loc, storeVars, hist>>

\* chunks, err := chunker.ChunkFile(ctx, file, cfg.ChunkSize): os.Open fails
\* when the path is gone; otherwise the producer goroutine starts, on the
\* file that was opened.
PF_ChunkFile(w) ==
  /\ pc[w] = "ChunkFile"
  /\ IF file[loc[w].file] = NoFile
     THEN /\ Return(w, "openfail")
          /\ UNCHANGED chunker
     ELSE /\ pc' = [pc EXCEPT ![w] = "range"]
          /\ chunker' = [chunker EXCEPT ![w] =
                [InitChunker EXCEPT !.st = "reading",
                                    !.src = file[loc[w].file]]]
          /\ UNCHANGED loc
  /\ UNCHANGED <<rs, cf, sup, file, fsEvents, detVars, fileCh, storeVars, hist>>

\* One turn of the producer goroutine up to its send: io.ReadFull on the
\* open file at the producer's offset. Bytes read: the producer is at
\* `out <- Chunk{...}` with them. None (io.EOF), or an error of the read
\* (lines 54 to 56), one of the MaxFaults: it breaks and closes the channel.
ChunkFileProducer(w) ==
  /\ chunker[w].st = "reading"
  /\ \/ /\ LET buf == ReadFull(chunker[w].src, chunker[w].idx)
           IN chunker' = [chunker EXCEPT ![w] =
                 IF Len(buf) = 0 THEN [@ EXCEPT !.st = "closed"]
                 ELSE [@ EXCEPT !.st = "sending", !.buf = buf]]
        /\ UNCHANGED <<loc, hist>>
     \/ /\ CanFail
        /\ chunker' = [chunker EXCEPT ![w].st = "closed"]
        /\ loc' = [loc EXCEPT ![w].producerErr = TRUE]
        /\ hist' = Fail
  /\ UNCHANGED <<rs, cf, sup, file, fsEvents, detVars, fileCh, pc, storeVars>>

\* The range with a producer that lacks its idx++: every chunk it hands over
\* has index 0.
PF_RangeChunks_NoIncrement(w) ==
  /\ pc[w] = "range"
  /\ chunker[w].st \in {"sending", "closed"}
  /\ IF chunker[w].st = "closed"
     THEN /\ loc' = [loc EXCEPT ![w].idx = -1, ![w].data = NoData]
          /\ chunker' = [chunker EXCEPT ![w] = InitChunker]
          /\ pc' = [pc EXCEPT ![w] = "UploadMetadata"]
     ELSE /\ loc' = [loc EXCEPT ![w].idx = chunker[w].idx,
                                ![w].data = chunker[w].buf]
          /\ chunker' = [chunker EXCEPT ![w] =
                IF Len(chunker[w].buf) < ChunkSize
                THEN [@ EXCEPT !.st = "closed", !.buf = NoData]
                ELSE [@ EXCEPT !.st = "reading", !.buf = NoData]]
          /\ pc' = [pc EXCEPT ![w] = "IsChunkUploaded"]
  /\ UNCHANGED <<rs, cf, sup, file, fsEvents, detVars, fileCh, storeVars, hist>>

\* for chunk := range chunks, on the unbuffered channel: the receive of the
\* chunk the producer is sending, after which the producer goes on (a short
\* chunk is the last: it breaks and closes; after a full one idx++ and the
\* next turn), or, the channel closed, the end of the range.
PF_RangeChunks(w) ==
  /\ pc[w] = "range"
  /\ chunker[w].st \in {"sending", "closed"}
  /\ IF chunker[w].st = "closed"
     THEN /\ loc' = [loc EXCEPT ![w].idx = -1, ![w].data = NoData]
          /\ chunker' = [chunker EXCEPT ![w] = InitChunker]
          /\ pc' = [pc EXCEPT ![w] = "UploadMetadata"]
     ELSE /\ loc' = [loc EXCEPT ![w].idx = chunker[w].idx,
                                ![w].data = chunker[w].buf]
          /\ chunker' = [chunker EXCEPT ![w] =
                IF Len(chunker[w].buf) < ChunkSize
                THEN [@ EXCEPT !.st = "closed", !.buf = NoData]
                ELSE [@ EXCEPT !.st = "reading", !.buf = NoData,
                               !.idx = @ + 1]]
          /\ pc' = [pc EXCEPT ![w] = "IsChunkUploaded"]
  /\ UNCHANGED <<rs, cf, sup, file, fsEvents, detVars, fileCh, storeVars, hist>>

\* IsChunkUploaded with the stored value compared to one that
\* SetChunkUploaded never writes.
IsChunkUploaded_WrongValue(streamID, idx) ==
  idx \in redis.chunk_uploaded[streamID] /\ "1" = "true"

\* Store.IsChunkUploaded without error: the key exists and holds "1".
IsChunkUploaded(streamID, idx) ==
  idx \in redis.chunk_uploaded[streamID] /\ "1" = "1"

\* Lines 98 to 107 without the `continue` of line 102: after an error the
\* chunk is treated as not uploaded.
PF_IsChunkUploaded_NoContinue(w) ==
  /\ pc[w] = "IsChunkUploaded"
  /\ \E ok \in Outcomes :
       /\ pc' = [pc EXCEPT ![w] =
             IF ok /\ IsChunkUploaded(Base(loc[w].file), loc[w].idx)
             THEN "range" ELSE "UploadChunk"]
       /\ loc' = [loc EXCEPT
             ![w].readErrs = IF ok THEN @ ELSE @ \cup {loc[w].idx}]
       /\ hist' = After(ok)
  /\ UNCHANGED <<rs, cf, sup, file, fsEvents, detVars, fileCh, chunker, storeVars>>

\* uploaded, err := redisClient.IsChunkUploaded(ctx, streamID, chunk.Index):
\* on an error the chunk is passed over, as is one found uploaded.
PF_IsChunkUploaded(w) ==
  /\ pc[w] = "IsChunkUploaded"
  /\ \E ok \in Outcomes :
       /\ pc' = [pc EXCEPT ![w] =
             IF ok /\ ~IsChunkUploaded(Base(loc[w].file), loc[w].idx)
             THEN "UploadChunk" ELSE "range"]
       /\ loc' = [loc EXCEPT
             ![w].readErrs = IF ok THEN @ ELSE @ \cup {loc[w].idx}]
       /\ hist' = After(ok)
  /\ UNCHANGED <<rs, cf, sup, file, fsEvents, detVars, fileCh, chunker, storeVars>>

\* UploadChunk without the `continue` of its error branch: a failed upload
\* falls through to SetChunkUploaded.
PF_UploadChunk_NoContinue(w) ==
  /\ pc[w] = "UploadChunk"
  /\ \E ok \in Outcomes :
       /\ s3' = IF ok
                THEN [s3 EXCEPT
                        !.chunks[Base(loc[w].file)][loc[w].idx] = loc[w].data]
                ELSE s3
       /\ loc' = [loc EXCEPT ![w].uploadCalls = @ \cup {loc[w].idx},
                             ![w].failed = @ \/ ~ok]
       /\ hist' = IF ok THEN hist
                  ELSE [After(ok) EXCEPT
                          !.failedUpload[Base(loc[w].file)] = @ \cup {loc[w].idx}]
  /\ pc' = [pc EXCEPT ![w] = "SetChunkUploaded"]
  /\ UNCHANGED <<rs, cf, sup, file, fsEvents, detVars, fileCh, chunker, redis>>

\* UploadChunk with a `return` in place of the `continue` of line 112: the
\* processor leaves the range over the chunk channel after a failed upload.
PF_UploadChunk_ReturnOnError(w) ==
  /\ pc[w] = "UploadChunk"
  /\ \E ok \in Outcomes :
       /\ s3' = IF ok
                THEN [s3 EXCEPT
                        !.chunks[Base(loc[w].file)][loc[w].idx] = loc[w].data]
                ELSE s3
       /\ loc' = [loc EXCEPT ![w].uploadCalls = @ \cup {loc[w].idx},
                             ![w].failed = @ \/ ~ok,
                             ![w].outcome = IF ok THEN @ ELSE "uploadfail"]
       /\ hist' = IF ok THEN hist
                  ELSE [After(ok) EXCEPT
                          !.failedUpload[Base(loc[w].file)] = @ \cup {loc[w].idx}]
       /\ pc' = [pc EXCEPT ![w] = IF ok THEN "SetChunkUploaded" ELSE "returned"]
  /\ UNCHANGED <<rs, cf, sup, file, fsEvents, detVars, fileCh, chunker, redis>>

\* s3Client.UploadChunk(ctx, streamID, chunk.Index, chunk.Data): on an error
\* the chunk is passed over.
PF_UploadChunk(w) ==
  /\ pc[w] = "UploadChunk"
  /\ \E ok \in Outcomes :
       /\ s3' = IF ok
                THEN [s3 EXCEPT
                        !.chunks[Base(loc[w].file)][loc[w].idx] = loc[w].data]
                ELSE s3
       /\ loc' = [loc EXCEPT ![w].uploadCalls = @ \cup {loc[w].idx},
                             ![w].failed = @ \/ ~ok]
       /\ hist' = IF ok THEN hist
                  ELSE [After(ok) EXCEPT
                          !.failedUpload[Base(loc[w].file)] = @ \cup {loc[w].idx}]
       /\ pc' = [pc EXCEPT ![w] = IF ok THEN "SetChunkUploaded" ELSE "range"]
  /\ UNCHANGED <<rs, cf, sup, file, fsEvents, detVars, fileCh, chunker, redis>>

\* SetChunkUploaded with a `continue` in its error branch (after line 117).
PF_SetChunkUploaded_ContinueOnError(w) ==
  /\ pc[w] = "SetChunkUploaded"
  /\ \E ok \in Outcomes :
       /\ redis' = IF ok
                   THEN [redis EXCEPT !.chunk_uploaded[Base(loc[w].file)] =
                                         @ \cup {loc[w].idx}]
                   ELSE redis
       /\ loc' = IF ok
                 THEN [loc EXCEPT
                    ![w].chunkMetas = Append(@, [index |-> loc[w].idx,
                                         checksum |-> Checksum(loc[w].data)]),
                    ![w].totalSize = @ + Len(loc[w].data)]
                 ELSE [loc EXCEPT ![w].markErrs = @ \cup {loc[w].idx}]
       /\ hist' = After(ok)
       /\ pc' = [pc EXCEPT ![w] = IF ok THEN "SetStreamProgress" ELSE "range"]
  /\ UNCHANGED <<rs, cf, sup, file, fsEvents, detVars, fileCh, chunker, s3>>

\* redisClient.SetChunkUploaded(ctx, streamID, chunk.Index), whose error is
\* only counted; then chunkMetas = append(...), totalSize += len(chunk.Data).
PF_SetChunkUploaded(w) ==
  /\ pc[w] = "SetChunkUploaded"
  /\ \E ok \in Outcomes :
       /\ redis' = IF ok
                   THEN [redis EXCEPT !.chunk_uploaded[Base(loc[w].file)] =
                                         @ \cup {loc[w].idx}]
                   ELSE redis
       /\ loc' = [loc EXCEPT
             ![w].chunkMetas = Append(@, [index |-> loc[w].idx,
                                          checksum |-> Checksum(loc[w].data)]),
             ![w].totalSize = @ + Len(loc[w].data),
             ![w].markErrs = IF ok THEN @ ELSE @ \cup {loc[w].idx}]
       /\ hist' = After(ok)
  /\ pc' = [pc EXCEPT ![w] = "SetStreamProgress"]
  /\ UNCHANGED <<rs, cf, sup, file, fsEvents, detVars, fileCh, chunker, s3>>

\* redisClient.SetStreamProgress(ctx, streamID, chunk.Index), its error
\* dropped.
PF_SetStreamProgress(w) ==
  /\ pc[w] = "SetStreamProgress"
  /\ \E ok \in Outcomes :
       /\ redis' = IF ok
                   THEN [redis EXCEPT
                           !.stream_progress[Base(loc[w].file)] = loc[w].idx]
                   ELSE redis
       /\ loc' = [loc EXCEPT
             ![w].errs = IF ok THEN @ ELSE @ \cup {"SetStreamProgress"}]
       /\ hist' = After(ok)
  /\ pc' = [pc EXCEPT ![w] = "range"]
  /\ UNCHANGED <<rs, cf, sup, file, fsEvents, detVars, fileCh, chunker, s3>>

\* UploadMetadata with a `return` in its error branch (after line 129).
PF_UploadMetadata_ReturnOnError(w) ==
  /\ pc[w] = "UploadMetadata"
  /\ \E ok \in Outcomes :
       /\ s3' = IF ok
                THEN [s3 EXCEPT !.metadata[Base(loc[w].file)] =
                        [total_size |-> loc[w].totalSize,
                         chunks |-> loc[w].chunkMetas]]
                ELSE s3
       /\ loc' = [loc EXCEPT ![w].metaCalls = @ + 1,
                             ![w].metaFailed = ~ok,
                             ![w].outcome = IF ok THEN @ ELSE "metafail"]
       /\ hist' = After(ok)
       /\ pc' = [pc EXCEPT ![w] = IF ok THEN "SetStreamStatus" ELSE "returned"]
  /\ UNCHANGED <<rs, cf, sup, file, fsEvents, detVars, fileCh, chunker, redis>>

\* s3Client.UploadMetadata(ctx, streamID, metaBytes), whose error is only
\* counted.
PF_UploadMetadata(w) ==
  /\ pc[w] = "UploadMetadata"
  /\ \E ok \in Outcomes :
       /\ s3' = IF ok
                THEN [s3 EXCEPT !.metadata[Base(loc[w].file)] =
                        [total_size |-> loc[w].totalSize,
                         chunks |-> loc[w].chunkMetas]]
                ELSE s3
       /\ loc' = [loc EXCEPT ![w].metaCalls = @ + 1,
                             ![w].metaFailed = ~ok]
       /\ hist' = After(ok)
  /\ pc' = [pc EXCEPT ![w] = "SetStreamStatus"]
  /\ UNCHANGED <<rs, cf, sup, file, fsEvents, detVars, fileCh, chunker, redis>>

\* redisClient.SetStreamStatus(ctx, streamID, "completed"), its error
\* dropped: a SET without expiry, which also drops any TTL the key had.
PF_SetStreamStatus(w) ==
  /\ pc[w] = "SetStreamStatus"
  /\ \E ok \in Outcomes :
       /\ redis' = IF ok
                   THEN [redis EXCEPT
                           !.stream_status[Base(loc[w].file)] = "completed",
                           !.status_ttl[Base(loc[w].file)] = FALSE,
                           !.ttl_order[Base(loc[w].file)] = "none"]
                   ELSE redis
       /\ loc' = [loc EXCEPT
             ![w].errs = IF ok THEN @ ELSE @ \cup {"SetStreamStatus"}]
       /\ hist' = IF ~ok THEN After(ok)
                  ELSE [hist EXCEPT
                          !.killed = @ \ {Base(loc[w].file)},
                          !.completed[Base(loc[w].file)][loc[w].hash] =
                             IF redis.stream_status[Base(loc[w].file)] = "completed"
                             THEN @ ELSE Min(@ + 1, 2)]
  /\ pc' = [pc EXCEPT ![w] = "SetStreamTTL"]
  /\ UNCHANGED <<rs, cf, sup, file, fsEvents, detVars, fileCh, chunker, s3>>

\* redisClient.SetStreamTTL(ctx, streamID, 7*24*time.Hour), its error
\* dropped: EXPIRE on the status key, which has effect only when the key
\* exists.
PF_SetStreamTTL(w) ==
  /\ pc[w] = "SetStreamTTL"
  /\ \E ok \in Outcomes :
       /\ redis' = IF ok
                   THEN [redis EXCEPT
                           !.status_ttl[Base(loc[w].file)] =
                              (redis.stream_status[Base(loc[w].file)] # ""),
                           !.ttl_order[Base(loc[w].file)] =
                              IF /\ redis.stream_status[Base(loc[w].file)] # ""
                                 /\ redis.hash_ttl[Base(loc[w].file)]
                              THEN "hash_first" ELSE "none"]
                   ELSE redis
       /\ loc' = [loc EXCEPT
             ![w].outcome = "completed",
             ![w].errs = IF ok THEN @ ELSE @ \cup {"SetStreamTTL"}]
       /\ hist' = After(ok)
  /\ pc' = [pc EXCEPT ![w] = "returned"]
  /\ UNCHANGED <<rs, cf, sup, file, fsEvents, detVars, fileCh, chunker, s3>>

\* Back in Run without the metrics.FilesInProgress.Dec() of line 77.
WorkerReturn_NoDec(w) ==
  /\ pc[w] = "returned"
  /\ pc' = [pc EXCEPT ![w] = "idle"]
  /\ loc' = [loc EXCEPT ![w] = InitLoc]
  /\ hist' = [hist EXCEPT
        !.run[w] = InitRun,
        !.failedUpload = IF loc[w].failed \/ loc[w].file = NoPath THEN @
           ELSE [@ EXCEPT ![Base(loc[w].file)] = @ \ loc[w].uploadCalls]]
  /\ UNCHANGED <<rs, cf, sup, file, fsEvents, detVars, fileCh, chunker, storeVars>>

\* Back in Run: metrics.FilesInProgress.Dec(), then the next select.
WorkerReturn(w) ==
  /\ pc[w] = "returned"
  /\ pc' = [pc EXCEPT ![w] = "idle"]
  /\ loc' = [loc EXCEPT ![w] = InitLoc]
  /\ hist' = [hist EXCEPT
        !.filesInProgress = @ - 1,
        !.run[w] = InitRun,
        !.failedUpload = IF loc[w].failed \/ loc[w].file = NoPath THEN @
           ELSE [@ EXCEPT ![Base(loc[w].file)] = @ \ loc[w].uploadCalls]]
  /\ UNCHANGED <<rs, cf, sup, file, fsEvents, detVars, fileCh, chunker, storeVars>>

\* A worker that leaves at any point of processFile once ctx is cancelled.
WorkerExit_Anywhere(w) ==
  /\ pc[w] # "exited"
  /\ sup.cancelled
  /\ pc' = [pc EXCEPT ![w] = "exited"]
  /\ UNCHANGED <<rs, cf, file, fsEvents, detVars, fileCh, loc, chunker, storeVars,
                 sup, hist>>

\* case <-ctx.Done(): the worker returns and its deferred wg.Done() runs.
\* With a path waiting in the channel as well, select takes either case.
WorkerExit(w) ==
  /\ pc[w] = "idle"
  /\ sup.cancelled
  /\ pc' = [pc EXCEPT ![w] = "exited"]
  /\ UNCHANGED <<rs, cf, file, fsEvents, detVars, fileCh, loc, chunker, storeVars,
                 sup, hist>>

Worker(w) ==
  \/ WorkerReceive(w)
  \/ PF_fileHash(w)
  \/ PF_GetValue(w)
  \/ PF_GetStreamStatus(w)
  \/ PF_DeleteKey(w)
  \/ PF_ResetProgress(w)
  \/ PF_SetValue(w)
  \/ PF_ChunkFile(w)
  \/ ChunkFileProducer(w)
  \/ PF_RangeChunks(w)
  \/ PF_IsChunkUploaded(w)
  \/ PF_UploadChunk(w)
  \/ PF_SetChunkUploaded(w)
  \/ PF_SetStreamProgress(w)
  \/ PF_UploadMetadata(w)
  \/ PF_SetStreamStatus(w)
  \/ PF_SetStreamTTL(w)
  \/ WorkerReturn(w)


(***************************************************************************)
(* ChunkFile on its own: any file, any chunk size.                         *)
(***************************************************************************)
\* The largest chunk size given to ChunkFile.
MaxSize == 3

\* The byte values of the files given to ChunkFile.
Bytes == {0, 1}

\* Every file of at most MaxLen bytes.
Files == UNION {[1..n -> Bytes] : n \in 0..MaxLen}

\* io.ReadFull(r, buf) with len(buf) = size on a reader at offset off of
\* `content`: the bytes read, fewer than size at the end of the file
\* (io.EOF for none, io.ErrUnexpectedEOF for some).
ReadFullAt(content, off, size) ==
  SubSeq(content, off + 1, Min(off + size, Len(content)))

\* ChunkFile(ctx, filePath, chunkSize) of a file that opens: the producer
\* goroutine starts with idx = 0 and an empty channel history.
ChunkFileInit ==
  /\ cf \in [content : Files, size : 1..MaxSize, st : {"reading"},
              idx : {0}, out : {<<>>}, readErr : {FALSE}]

\* One turn of the producer's loop without the test n > 0 of line 48.
ChunkFileRead_NoShortTest ==
  /\ cf.st = "reading"
  /\ \/ LET buf == ReadFullAt(cf.content, cf.idx * cf.size, cf.size)
            chunk == [Index |-> cf.idx, Data |-> buf]
        IN IF Len(buf) < cf.size
           THEN cf' = [cf EXCEPT !.st = "closed", !.out = Append(@, chunk)]
           ELSE cf' = [cf EXCEPT !.idx = @ + 1, !.out = Append(@, chunk)]
     \/ cf' = [cf EXCEPT !.st = "closed", !.readErr = TRUE]
  /\ UNCHANGED <<rs, file, fsEvents, detVars, fileCh, pc, loc, chunker,
                 storeVars, sup, hist>>

\* One turn of the producer's loop: ReadFull. At the end of the file the
\* bytes read, if any, are sent as the last chunk and the channel is closed;
\* a read that fails with another error (lines 54 to 56) closes the channel
\* and sends nothing; otherwise a full chunk is sent and idx is incremented.
ChunkFileRead ==
  /\ cf.st = "reading"
  /\ \/ LET buf == ReadFullAt(cf.content, cf.idx * cf.size, cf.size)
            chunk == [Index |-> cf.idx, Data |-> buf]
        IN IF Len(buf) < cf.size
           THEN cf' = [cf EXCEPT !.st = "closed",
                         !.out = IF Len(buf) > 0 THEN Append(@, chunk) ELSE @]
           ELSE cf' = [cf EXCEPT !.idx = @ + 1, !.out = Append(@, chunk)]
     \/ cf' = [cf EXCEPT !.st = "closed", !.readErr = TRUE]
  /\ UNCHANGED <<rs, file, fsEvents, detVars, fileCh, pc, loc, chunker,
                 storeVars, sup, hist>>

\* ChunkFile applied to every file of at most MaxLen bytes and every chunk
\* size up to MaxSize; the rest of the program is not started.
InitChunk ==
  /\ file = [p \in Paths |-> NoFile]
  /\ fsEvents = {}
  /\ started = FALSE
  /\ seen = [p \in Paths |-> -1]
  /\ hashes = [p \in Paths |-> NoEntry]
  /\ mu = "free"
  /\ tick = InitTick
  /\ clock = InitClock
  /\ evloop = InitEvloop
  /\ rescan = InitRescan
  /\ fileCh = <<>>
  /\ pc = [w \in Workers |-> "idle"]
  /\ loc = [w \in Workers |-> InitLoc]
  /\ chunker = [w \in Workers |-> InitChunker]
  /\ redis = InitRedis
  /\ s3 = InitS3
  /\ sup = InitSup
  /\ hist = InitHist
  /\ rs = InitRs
  /\ ChunkFileInit

NextChunk == ChunkFileRead

SpecChunk == InitChunk /\ [][NextChunk]_vars

(***************************************************************************)
(* redisStore on its own: the adapter's functions over a RedisClient.      *)
(* Strings are sequences of characters; a key prefix is one character.     *)
(***************************************************************************)
\* The width of itoa's format, "%05d".
PadWidth == 5

Digits == <<"0", "1", "2", "3", "4", "5", "6", "7", "8", "9">>

\* The decimal digits of i >= 0.
RECURSIVE Decimal(_)
Decimal(i) ==
  IF i < 10 THEN <<Digits[i + 1]>>
  ELSE Decimal(i \div 10) \o <<Digits[(i % 10) + 1]>>

\* itoa that formats with "%d".
itoa_NoPad(i) == Decimal(i)

\* itoa(i): fmt.Sprintf("%05d", i), zero-padded to at least five digits.
itoa(i) ==
  LET d == Decimal(i)
  IN [k \in 1..(PadWidth - Len(d)) |-> "0"] \o d

\* "chunk_uploaded:" + streamID + ":" + itoa(chunkIdx)
ChunkKey(streamID, chunkIdx) ==
  <<"chunk_uploaded:">> \o streamID \o <<":">> \o itoa(chunkIdx)

\* "stream_status:" + streamID
StatusKey(streamID) == <<"stream_status:">> \o streamID

\* The stream ids, chunk indices and keys the adapter is called with, and
\* the keys and values a client can hold at the start.
UnitStreams == {<<"f", "o", "o">>, <<"b", "a", "r">>}
UnitIdx == {1, 12}
UnitChunkKeys ==
  {<<"chunk_uploaded:">> \o s \o <<":">> \o d :
     s \in UnitStreams,
     d \in {<<"0", "0", "0", "0", "1">>, <<"0", "0", "0", "1", "2">>}}
UnitStatusKeys == {<<"stream_status:">> \o s : s \in UnitStreams}
UnitKeys == UnitChunkKeys \cup UnitStatusKeys
UnitVals(key) ==
  IF key \in UnitStatusKeys THEN {"completed", "in_progress"}
  ELSE {"1", "true", "0"}

\* The client's keyspace: a function from the keys that exist to their
\* values. client.Get(ctx, key).Result() without a failure: the value, or ""
\* and redis.Nil for a key that does not exist.
Get(data, key) ==
  IF key \in DOMAIN data
  THEN [val |-> data[key], err |-> "nil"]
  ELSE [val |-> "", err |-> "redis.Nil"]

\* A call of the client that fails (connection lost, ctx cancelled).
GetFails == [val |-> "", err |-> "fail"]

\* client.Set(ctx, key, value, 0) and client.Del(ctx, key) on the keyspace.
Set(data, key, value) ==
  [k \in DOMAIN data \cup {key} |-> IF k = key THEN value ELSE data[k]]
Del(data, key) == [k \in DOMAIN data \ {key} |-> data[k]]

Called(op, args, val, err) ==
  [op |-> op, args |-> args, val |-> val, err |-> err]

\* Everything but the redisStore on its own.
progVars == <<file, fsEvents, detVars, fileCh, pc, loc, chunker,
              storeVars, cf, sup, hist>>

\* SetChunkUploaded: Set(key, true, 0); the client writes a bool true as "1".
RS_SetChunkUploaded(streamID, chunkIdx) ==
  /\ \/ rs' = [data |-> Set(rs.data, ChunkKey(streamID, chunkIdx), "1"),
               call |-> Called("SetChunkUploaded", <<streamID, chunkIdx>>,
                               "", "nil")]
     \/ rs' = [rs EXCEPT !.call = Called("SetChunkUploaded",
                                         <<streamID, chunkIdx>>, "", "fail")]
  /\ UNCHANGED progVars

\* IsChunkUploaded: Get(key); redis.Nil gives (false, nil), anything else
\* (res == "1" || res == "true", err).
RS_IsChunkUploaded(streamID, chunkIdx) ==
  /\ \E got \in {Get(rs.data, ChunkKey(streamID, chunkIdx)), GetFails} :
       rs' = [rs EXCEPT !.call =
                IF got.err = "redis.Nil"
                THEN Called("IsChunkUploaded", <<streamID, chunkIdx>>,
                            FALSE, "nil")
                ELSE Called("IsChunkUploaded", <<streamID, chunkIdx>>,
                            got.val = "1" \/ got.val = "true", got.err)]
  /\ UNCHANGED progVars

\* SetStreamStatus: Set("stream_status:" + streamID, status, 0).
RS_SetStreamStatus(streamID, status) ==
  /\ \/ rs' = [data |-> Set(rs.data, StatusKey(streamID), status),
               call |-> Called("SetStreamStatus", <<streamID, status>>,
                               "", "nil")]
     \/ rs' = [rs EXCEPT !.call = Called("SetStreamStatus",
                                         <<streamID, status>>, "", "fail")]
  /\ UNCHANGED progVars

\* GetStreamStatus: Get("stream_status:" + streamID).Result(), as it is.
RS_GetStreamStatus(streamID) ==
  /\ \E got \in {Get(rs.data, StatusKey(streamID)), GetFails} :
       rs' = [rs EXCEPT !.call =
                Called("GetStreamStatus", <<streamID>>, got.val, got.err)]
  /\ UNCHANGED progVars

\* GetValue: Get(key).Result(), as it is.
RS_GetValue(key) ==
  /\ \E got \in {Get(rs.data, key), GetFails} :
       rs' = [rs EXCEPT !.call = Called("GetValue", <<key>>, got.val, got.err)]
  /\ UNCHANGED progVars

\* DeleteKey: Del(key).
RS_DeleteKey(key) ==
  /\ \/ rs' = [data |-> Del(rs.data, key),
               call |-> Called("DeleteKey", <<key>>, "", "nil")]
     \/ rs' = [rs EXCEPT !.call = Called("DeleteKey", <<key>>, "", "fail")]
  /\ UNCHANGED progVars

\* The keys that SCAN with MATCH "stream_status:*" iterates over.
ScanKeys(data) == {k \in DOMAIN data : k[1] = "stream_status:"}

\* ScanIncompleteStreams: for every key the iterator yields, Get(key); the
\* part of the key after "stream_status:" is appended when the Get gave no
\* error and a value other than "completed". The result is taken as a set
\* (the order is the scan's). `yielded`: the keys iter.Next gave before it
\* returned false, which are all the keys of the scan when no SCAN of the
\* client failed, and those of the pages fetched before the failing one
\* otherwise (iter.Err() is then not nil). `failing`: the keys whose Get
\* fails.
RS_ScanIncompleteStreams ==
  /\ \E yielded \in SUBSET ScanKeys(rs.data) :
       \E failing \in SUBSET yielded :
         \E err \in {"nil", "fail"} :
           /\ err = "nil" => yielded = ScanKeys(rs.data)
           /\ rs' = [rs EXCEPT !.call =
                       Called("ScanIncompleteStreams", failing,
                              {Tail(k) : k \in {j \in yielded \ failing :
                                                  rs.data[j] # "completed"}},
                              err)]
  /\ UNCHANGED progVars

\* A redisStore over a client that holds any of the keys of UnitKeys, the
\* rest of the program not started.
InitStore ==
  /\ file = [p \in Paths |-> NoFile]
  /\ fsEvents = {}
  /\ started = FALSE
  /\ seen = [p \in Paths |-> -1]
  /\ hashes = [p \in Paths |-> NoEntry]
  /\ mu = "free"
  /\ tick = InitTick
  /\ clock = InitClock
  /\ evloop = InitEvloop
  /\ rescan = InitRescan
  /\ fileCh = <<>>
  /\ pc = [w \in Workers |-> "idle"]
  /\ loc = [w \in Workers |-> InitLoc]
  /\ chunker = [w \in Workers |-> InitChunker]
  /\ redis = InitRedis
  /\ s3 = InitS3
  /\ sup = InitSup
  /\ hist = InitHist
  /\ cf = InitCf
  /\ \E present \in SUBSET UnitKeys :
       \E data \in [present -> {"completed", "in_progress", "1", "true", "0"}] :
         /\ \A k \in present : data[k] \in UnitVals(k)
         /\ rs = [data |-> data, call |-> NoCall]

NextStore ==
  \/ \E s \in UnitStreams, i \in UnitIdx : RS_SetChunkUploaded(s, i)
  \/ \E s \in UnitStreams, i \in UnitIdx : RS_IsChunkUploaded(s, i)
  \/ \E s \in UnitStreams : RS_SetStreamStatus(s, "completed")
  \/ \E s \in UnitStreams : RS_GetStreamStatus(s)
  \/ \E k \in UnitKeys : RS_GetValue(k)
  \/ \E k \in UnitKeys : RS_DeleteKey(k)
  \/ RS_ScanIncompleteStreams

SpecStore == InitStore /\ [][NextStore]_vars

(***************************************************************************)
(* The stability detector (Watcher).                                       *)
(***************************************************************************)
\* An age that exceeds the stability window: now - 2*StabilityThreshold
\* seconds and every older instant are the same to checkStableFiles.
StableAge == StabilityThreshold + 1

\* Watcher.Start with a scanExistingFiles that enters the files at `now`
\* (line 338 without its Add(-2 * threshold)).
WatcherStart_NotBackdated ==
  /\ ~started
  /\ started' = TRUE
  /\ seen' = [p \in Paths |->
        IF file[p] # NoFile /\ isAllowedExt(p) THEN 0 ELSE seen[p]]
  /\ hist' = [hist EXCEPT !.scanned =
        {p \in Paths : file[p] # NoFile /\ isAllowedExt(p)}]
  /\ UNCHANGED <<rs, cf, sup, file, fsEvents, hashes, mu, tick, clock, evloop,
                 rescan, fileCh, pc, loc, chunker, storeVars>>

\* Watcher.Start up to its loops: watcher.Add, then scanExistingFiles, which
\* enters every existing file of an allowed extension as old enough (no
\* other goroutine of the detector runs yet, the lock is free).
WatcherStart ==
  /\ ~started
  /\ started' = TRUE
  /\ seen' = [p \in Paths |->
        IF file[p] # NoFile /\ isAllowedExt(p) THEN StableAge ELSE seen[p]]
  /\ hist' = [hist EXCEPT !.scanned =
        {p \in Paths : file[p] # NoFile /\ isAllowedExt(p)}]
  /\ UNCHANGED <<rs, cf, sup, file, fsEvents, hashes, mu, tick, clock, evloop,
                 rescan, fileCh, pc, loc, chunker, storeVars>>

\* One second passes: every entry of seen is a second older and both
\* tickers (the 1 s one, and periodicRescan's, of period debounce) have a
\* tick pending.
TimePass ==
  /\ started
  /\ seen' = [p \in Paths |->
        IF seen[p] = -1 THEN -1 ELSE Min(seen[p] + 1, StableAge)]
  /\ clock' = [tickDue |-> TRUE, rescanDue |-> TRUE]
  /\ hist' = [hist EXCEPT !.sinceEvent =
        [p \in Paths |-> Min(@[p] + 1, StableAge)]]
  /\ UNCHANGED <<rs, cf, sup, file, fsEvents, started, hashes, mu, tick, evloop,
                 rescan, fileCh, pc, loc, chunker, storeVars>>

\* case event := <-watcher.Events: the loop of Start takes an event of the
\* mask and goes to w.mu.Lock().
WatcherEvent(p) ==
  /\ started
  /\ sup.tasks["events"] = "running"
  /\ evloop.pc = "select"
  /\ p \in fsEvents
  /\ fsEvents' = fsEvents \ {p}
  /\ evloop' = [pc |-> "Lock", file |-> p]
  /\ UNCHANGED <<rs, cf, sup, file, started, seen, hashes, mu, tick, clock,
                 rescan, fileCh, pc, loc, chunker, storeVars, hist>>

\* Lines 316 to 318: once the lock is free, w.seen[event.Name] = time.Now(),
\* Unlock, and the loop is back at its select.
WatcherEventMark ==
  /\ evloop.pc = "Lock"
  /\ mu = "free"
  /\ seen' = [seen EXCEPT ![evloop.file] = 0]
  /\ evloop' = InitEvloop
  /\ hist' = [hist EXCEPT !.scanned = @ \ {evloop.file}]
  /\ UNCHANGED <<rs, cf, sup, file, fsEvents, started, hashes, mu, tick, clock,
                 rescan, fileCh, pc, loc, chunker, storeVars>>

\* filterFile that looks at the status only.
filterFile_StatusOnly(hash, status, prevHash) ==
  ~(status = "completed")

\* filterFile's test on what it read: false (suppress) iff the stored
\* fingerprint is the current one and the stream is completed.
filterFile(hash, status, prevHash) ==
  ~(prevHash = hash /\ status = "completed")

\* case <-ticker.C: checkStableFiles locks w.mu and ranges over the entries
\* of seen that are older than debounce.
CheckStableFilesBegin ==
  /\ started
  /\ sup.tasks["tick"] = "running"
  /\ clock.tickDue
  /\ tick.pc = "idle"
  /\ mu = "free"
  /\ mu' = "tick"
  /\ clock' = [clock EXCEPT !.tickDue = FALSE]
  /\ tick' = [InitTick EXCEPT !.pc = "range",
                !.left = {p \in Paths : seen[p] > StabilityThreshold},
                !.stable = {p \in Paths : seen[p] > StabilityThreshold}]
  /\ hist' = [hist EXCEPT !.scanned = {}]
  /\ UNCHANGED <<rs, cf, sup, file, fsEvents, started, seen, hashes, evloop,
                 rescan, fileCh, pc, loc, chunker, storeVars>>

\* The range with the delete of line 385 inside the `if w.filterFile(file)`
\* of line 378: an entry of another extension is not deleted.
CheckStableFilesNext_DeleteSentOnly ==
  /\ tick.pc = "range"
  /\ IF tick.left = {}
     THEN /\ mu' = "free"
          /\ tick' = InitTick
     ELSE \E p \in tick.left :
            /\ mu' = mu
            /\ IF isAllowedExt(p)
               THEN tick' = [tick EXCEPT !.pc = "GetStreamStatus", !.file = p,
                                         !.hash = fileHash(file[p]),
                                         !.left = @ \ {p}]
               ELSE tick' = [tick EXCEPT !.left = @ \ {p},
                                         !.dropped = @ \cup {p}]
  /\ UNCHANGED <<rs, cf, sup, file, fsEvents, started, seen, hashes, clock,
                 evloop, rescan, fileCh, pc, loc, chunker, storeVars, hist>>

\* The next stable entry. One of another extension is only deleted. For one
\* of an allowed extension filterFile is entered: hash := fileHash(file).
\* The range over, the deferred Unlock runs.
CheckStableFilesNext ==
  /\ tick.pc = "range"
  /\ IF tick.left = {}
     THEN /\ mu' = "free"
          /\ tick' = InitTick
          /\ UNCHANGED seen
     ELSE \E p \in tick.left :
            /\ mu' = mu
            /\ IF isAllowedExt(p)
               THEN /\ tick' = [tick EXCEPT !.pc = "GetStreamStatus",
                                            !.file = p,
                                            !.hash = fileHash(file[p]),
                                            !.left = @ \ {p}]
                    /\ UNCHANGED seen
               ELSE /\ tick' = [tick EXCEPT !.left = @ \ {p},
                                            !.dropped = @ \cup {p}]
                    /\ seen' = [seen EXCEPT ![p] = -1]
  /\ UNCHANGED <<rs, cf, sup, file, fsEvents, started, hashes, clock, evloop,
                 rescan, fileCh, pc, loc, chunker, storeVars, hist>>

\* filterFile line 360: status, _ := w.redis.GetStreamStatus(
\* context.Background(), streamID). The call is not handed ctx: it fails
\* only when the store cannot be reached, and then leaves status "".
FF_GetStreamStatus ==
  /\ tick.pc = "GetStreamStatus"
  /\ \/ /\ tick' = [tick EXCEPT !.pc = "GetValue",
                      !.status = redis.stream_status[Base(tick.file)]]
        /\ UNCHANGED hist
     \/ /\ CanFail
        /\ tick' = [tick EXCEPT !.pc = "GetValue", !.status = ""]
        /\ hist' = Fail
  /\ UNCHANGED <<rs, cf, sup, file, fsEvents, started, seen, hashes, mu, clock,
                 evloop, rescan, fileCh, pc, loc, chunker, storeVars>>

\* filterFile line 361, prevHash, _ := w.redis.GetValue(context.Background(),
\* hashKey), a failed call leaving prevHash "", and the test on what was
\* read: a path that is suppressed is logged and its entry deleted (line
\* 385); any other goes on to the send.
FF_GetValue ==
  /\ tick.pc = "GetValue"
  /\ \E ok \in {b \in BOOLEAN : b \/ CanFail} :
       LET prevHash == IF ok THEN redis.file_hash[Base(tick.file)] ELSE NoHash
       IN /\ IF filterFile(tick.hash, tick.status, prevHash)
             THEN /\ tick' = [tick EXCEPT !.pc = "send"]
                  /\ UNCHANGED seen
             ELSE /\ tick' = [tick EXCEPT !.pc = "range", !.file = NoPath,
                                !.hash = NoHash, !.status = "",
                                !.skipped = @ \cup {tick.file}]
                  /\ seen' = [seen EXCEPT ![tick.file] = -1]
          /\ hist' = IF ok THEN hist ELSE Fail
  /\ UNCHANGED <<rs, cf, sup, file, fsEvents, started, hashes, mu, clock,
                 evloop, rescan, fileCh, pc, loc, chunker, storeVars>>

\* The send of line 379 on a channel that takes a path whatever it holds.
CheckStableFilesSend_NoBlock ==
  /\ tick.pc = "send"
  /\ fileCh' = Append(fileCh, tick.file)
  /\ seen' = [seen EXCEPT ![tick.file] = -1]
  /\ tick' = [tick EXCEPT !.pc = "range", !.file = NoPath,
                          !.hash = NoHash, !.status = ""]
  /\ hist' = [hist EXCEPT !.emitted[tick.file] = TRUE]
  /\ UNCHANGED <<rs, cf, sup, file, fsEvents, started, hashes, mu, clock,
                 evloop, rescan, pc, loc, chunker, storeVars>>

\* w.fileCh <- file, which blocks while the channel is full; then
\* delete(w.seen, file).
CheckStableFilesSend ==
  /\ tick.pc = "send"
  /\ Len(fileCh) < ChannelCap
  /\ fileCh' = Append(fileCh, tick.file)
  /\ seen' = [seen EXCEPT ![tick.file] = -1]
  /\ tick' = [tick EXCEPT !.pc = "range", !.file = NoPath,
                          !.hash = NoHash, !.status = ""]
  /\ hist' = [hist EXCEPT !.emitted[tick.file] = TRUE]
  /\ UNCHANGED <<rs, cf, sup, file, fsEvents, started, hashes, mu, clock,
                 evloop, rescan, pc, loc, chunker, storeVars>>

\* periodicRescan's ticker fires: rescanFiles globs the directory and ranges
\* over the files found that have an allowed extension.
rescanFiles ==
  /\ started
  /\ sup.tasks["rescan"] = "running"
  /\ clock.rescanDue
  /\ rescan.pc = "idle"
  /\ clock' = [clock EXCEPT !.rescanDue = FALSE]
  /\ LET files == {p \in Paths : file[p] # NoFile /\ isAllowedExt(p)}
     IN rescan' = IF files = {} THEN InitRescan
                  ELSE [InitRescan EXCEPT !.pc = "range", !.left = files]
  /\ UNCHANGED <<rs, cf, sup, file, fsEvents, started, seen, hashes, mu, tick,
                 evloop, fileCh, pc, loc, chunker, storeVars, hist>>

\* Line 414, outside the lock: hash := fileHash(file) for the next file of
\* the range; then the goroutine goes to w.mu.Lock().
rescanFiles_Hash ==
  /\ rescan.pc = "range"
  /\ \E p \in rescan.left :
       rescan' = [rescan EXCEPT !.pc = "Lock", !.file = p,
                                !.hash = fileHash(file[p]),
                                !.left = @ \ {p}]
  /\ UNCHANGED <<rs, cf, sup, file, fsEvents, started, seen, hashes, mu, tick,
                 clock, evloop, fileCh, pc, loc, chunker, storeVars, hist>>

\* Lines 415 to 420: once the lock is free, a file whose fingerprint is new
\* or differs from the recorded one is backdated in seen and its fingerprint
\* recorded; Unlock, and the next file, or the return to periodicRescan's
\* select.
rescanFiles_Update ==
  /\ rescan.pc = "Lock"
  /\ mu = "free"
  /\ IF hashes[rescan.file] = NoEntry \/ hashes[rescan.file] # rescan.hash
     THEN /\ seen' = [seen EXCEPT ![rescan.file] = StableAge]
          /\ hashes' = [hashes EXCEPT ![rescan.file] = rescan.hash]
     ELSE UNCHANGED <<seen, hashes>>
  /\ rescan' = IF rescan.left = {} THEN InitRescan
               ELSE [InitRescan EXCEPT !.pc = "range", !.left = rescan.left]
  /\ UNCHANGED <<rs, cf, sup, file, fsEvents, started, mu, tick, clock, evloop,
                 fileCh, pc, loc, chunker, storeVars, hist>>

\* case <-ctx.Done() in one of the three loops of the detector: the task
\* returns. A loop is at its select only between two iterations: the tick's
\* not inside checkStableFiles, periodicRescan's not inside rescanFiles, and
\* Start's not while it waits for the lock with an event.
TaskExit(t) ==
  /\ started
  /\ sup.cancelled
  /\ sup.tasks[t] = "running"
  /\ t = "tick" => tick.pc = "idle"
  /\ t = "rescan" => rescan.pc = "idle"
  /\ t = "events" => evloop.pc = "select"
  /\ sup' = [sup EXCEPT !.tasks[t] = "exited"]
  /\ UNCHANGED <<rs, cf, file, fsEvents, detVars, fileCh, pc, loc, chunker,
                 storeVars, hist>>

\* The stability tick's goroutine inside checkStableFiles.
Tick ==
  \/ CheckStableFilesBegin
  \/ CheckStableFilesNext
  \/ FF_GetStreamStatus
  \/ FF_GetValue
  \/ CheckStableFilesSend

\* periodicRescan's goroutine.
Rescan ==
  \/ rescanFiles
  \/ rescanFiles_Hash
  \/ rescanFiles_Update


(***************************************************************************)
(* Run, the supervisor, and the shutdown signal.                           *)
(***************************************************************************)
\* main's signal goroutine calls cancel(): ctx.Done() is closed.
Cancel ==
  /\ ~sup.cancelled
  /\ sup' = [sup EXCEPT !.cancelled = TRUE]
  /\ UNCHANGED <<rs, cf, file, fsEvents, detVars, fileCh, pc, loc, chunker,
                 storeVars, hist>>

\* Run passes <-ctx.Done() and calls wg.Wait().
RunDone ==
  /\ sup.pc = "Done"
  /\ sup.cancelled
  /\ sup' = [sup EXCEPT !.pc = "Wait"]
  /\ UNCHANGED <<rs, cf, file, fsEvents, detVars, fileCh, pc, loc, chunker,
                 storeVars, hist>>

\* wg.Wait() returns once every worker has called wg.Done(); Run returns.
RunReturn ==
  /\ sup.pc = "Wait"
  /\ \A w \in Workers : pc[w] = "exited"
  /\ sup' = [sup EXCEPT !.pc = "returned"]
  /\ UNCHANGED <<rs, cf, file, fsEvents, detVars, fileCh, pc, loc, chunker,
                 storeVars, hist>>

Run == RunDone \/ RunReturn

(***************************************************************************)
(* Environment: writers of the watch directory, process kill and restart.  *)
(***************************************************************************)
\* The file at p is created, rewritten (in place, so that open readers see
\* the new bytes, or by replacing it) or removed. fsnotify reports Create
\* and Write while the watcher runs; Remove is not in Start's mask.
FileWrite(p, c, inplace) ==
  /\ CanDisturb
  /\ c # file[p]
  /\ inplace => (c # NoFile /\ file[p] # NoFile)
  /\ file' = [file EXCEPT ![p] = c]
  /\ hist' = [Disturb EXCEPT
        !.killed = @ \ {Base(p)},
        !.failedUpload[Base(p)] = {},
        !.run = [w \in Workers |->
           IF loc[w].file = p THEN [@[w] EXCEPT !.dirty = TRUE] ELSE @[w]],
        !.sinceEvent[p] = IF c # NoFile THEN 0 ELSE @,
        !.emitted[p] = FALSE]
  /\ fsEvents' = IF started /\ c # NoFile THEN fsEvents \cup {p} ELSE fsEvents
  /\ chunker' = [w \in Workers |->
        IF inplace /\ chunker[w].st # "off" /\ loc[w].file = p
        THEN [chunker[w] EXCEPT !.src = c]
        ELSE chunker[w]]
  /\ UNCHANGED <<rs, cf, sup, detVars, fileCh, pc, loc, storeVars>>

\* The file at p is touched (chmod, or rewritten with the bytes it holds):
\* fsnotify reports Chmod or Write, the content is the same.
FileTouch(p) ==
  /\ CanDisturb
  /\ started
  /\ file[p] # NoFile
  /\ hist' = [Disturb EXCEPT !.sinceEvent[p] = 0, !.emitted[p] = FALSE]
  /\ fsEvents' = fsEvents \cup {p}
  /\ UNCHANGED <<rs, cf, sup, file, detVars, fileCh, pc, loc, chunker, storeVars>>

\* Seven days have passed since the SetValue or the SetStreamTTL that gave
\* a key of stream s its TTL: the store drops that key. The keys with a TTL
\* are file_hash:s (SetValue's expiry) and, after SetStreamTTL,
\* stream_status:s; each has its own deadline, seven days after the call,
\* so that of two keys with a TTL the one whose call came first goes first
\* (ttl_order: "hash_first", "status_first"). SetChunkUploaded,
\* SetStreamProgress and SetStreamStatus write with expiry 0, no TTL. The
\* expiry of the first of two keys and that of the other, when no call has
\* touched its TTL in between ("rest_due"), count as one event together.
KeysExpire(s) ==
  /\ CanDisturb \/ redis.ttl_order[s] = "rest_due"
  /\ \E k \in {"file_hash", "stream_status"} :
       /\ IF k = "file_hash" THEN redis.hash_ttl[s] ELSE redis.status_ttl[s]
       /\ redis.ttl_order[s] # (IF k = "file_hash" THEN "status_first"
                                ELSE "hash_first")
       /\ LET rest == IF redis.ttl_order[s] \in {"hash_first", "status_first"}
                      THEN "rest_due" ELSE "none"
          IN redis' = IF k = "file_hash"
                      THEN [redis EXCEPT !.file_hash[s] = NoHash,
                                         !.hash_ttl[s] = FALSE,
                                         !.ttl_order[s] = rest]
                      ELSE [redis EXCEPT !.stream_status[s] = "",
                                         !.status_ttl[s] = FALSE,
                                         !.ttl_order[s] = rest]
  /\ hist' = [IF redis.ttl_order[s] = "rest_due" THEN hist ELSE Disturb
                EXCEPT !.expired = @ \cup {s}]
  /\ UNCHANGED <<rs, cf, file, fsEvents, detVars, fileCh, pc, loc, chunker, s3, sup>>

\* The positions of processFile inside its chunk loop.
InLoop == {"range", "IsChunkUploaded", "UploadChunk", "SetChunkUploaded",
           "SetStreamProgress"}

\* The process is killed and started again: everything in memory is lost,
\* the file system and both stores are kept.
Crash ==
  /\ started
  /\ CanDisturb
  /\ hist' = [Disturb EXCEPT
        !.run = [w \in Workers |-> InitRun],
        !.emitted = [p \in Paths |-> FALSE],
        !.scanned = {},
        !.filesInProgress = 0,
        !.killed = @ \cup {Base(loc[w].file) : w \in
           {v \in Workers : pc[v] \in InLoop}}]
  /\ fsEvents' = {}
  /\ started' = FALSE
  /\ seen' = [p \in Paths |-> -1]
  /\ hashes' = [p \in Paths |-> NoEntry]
  /\ mu' = "free"
  /\ tick' = InitTick
  /\ clock' = InitClock
  /\ evloop' = InitEvloop
  /\ rescan' = InitRescan
  /\ fileCh' = <<>>
  /\ pc' = [w \in Workers |-> "idle"]
  /\ loc' = [w \in Workers |-> InitLoc]
  /\ chunker' = [w \in Workers |-> InitChunker]
  /\ sup' = InitSup
  /\ UNCHANGED <<rs, cf, file, storeVars>>

FirstWorker == CHOOSE w \in Workers : \A v \in Workers : w <= v

\* What the earlier process can have left for the video's stream.
Lefts ==
  {NoStream, LeftCompleted(ContentA), LeftCompleted(ContentB),
   LeftKilled(ContentA, 1)}

\* The two ticker-driven goroutines of the detector, and time.
Detector == TimePass \/ Tick \/ Rescan

\* The loop of Watcher.Start over the fsnotify events.
Events == (\E p \in Paths : WatcherEvent(p)) \/ WatcherEventMark

\* A deployment with WORKER_COUNT=1 whose stores fail: the video is in place
\* at startup and is not written afterwards, the stores are as an earlier
\* process left them, and at most MaxFaults calls fail.
Init == Boot({ContentA}, {NoFile}, MaxFaults, 0, Lefts)

Next ==
  \/ WatcherStart
  \/ Detector
  \/ Worker(FirstWorker)

Spec == Init /\ [][Next]_vars

\* The same deployment in an environment that acts, at most MaxEvents times:
\* the video is removed, the process is killed and started again, the keys
\* of a stream expire. No call fails.
InitEnv == Boot({ContentA}, {NoFile}, 0, MaxEvents, Lefts)

NextEnv ==
  \/ WatcherStart
  \/ Detector
  \/ Worker(FirstWorker)
  \/ \E p \in Videos : FileWrite(p, NoFile, FALSE)
  \/ Crash
  \/ \E s \in StreamIds : KeysExpire(s)

SpecEnv == InitEnv /\ [][NextEnv]_vars

\* A directory that holds the video, which replaced one of another content
\* while the process was down, and a file of another extension, both there
\* at startup: one worker, and at most MaxEvents touches of either file.
InitDir ==
  Boot({ContentA}, {ContentB}, 0, MaxEvents, {LeftStored(fileHash(ContentB))})

NextDir ==
  \/ WatcherStart
  \/ Detector
  \/ Events
  \/ Worker(FirstWorker)
  \/ \E p \in Paths : FileTouch(p)

SpecDir == InitDir /\ [][NextDir]_vars

\* The process at a moment when the detector has sent the video, in place at
\* startup with `content`, and every goroutine is at its select, no worker
\* having received yet: it was sent once, after the startup scan, or
\* (`sends` = 2) once more after the first rescan, which recorded its
\* fingerprint. The earlier process left `left`; the paths of `pending`
\* were touched since and their event is not read yet; `faults` calls can
\* fail and `events` events can come. With `runs` = 1 the video held
\* another content at startup: the first path was received and its run,
\* which has returned, completed the stream as `left` says; the video was
\* then replaced by `content`, the event was read, and it is the send after
\* the rescan of the new content that is queued.
Resting(content, left, sends, runs, pending, faults, events) ==
  /\ file = [p \in Paths |-> IF p = VideoPath THEN content ELSE NoFile]
  /\ fsEvents = pending
  /\ started = TRUE
  /\ seen = [p \in Paths |-> -1]
  /\ hashes = [p \in Paths |->
        IF p = VideoPath /\ sends = 2 THEN fileHash(content) ELSE NoEntry]
  /\ mu = "free"
  /\ tick = InitTick
  /\ clock = InitClock
  /\ evloop = InitEvloop
  /\ rescan = InitRescan
  /\ fileCh = [i \in 1..(sends - runs) |-> VideoPath]
  /\ pc = [w \in Workers |-> "idle"]
  /\ loc = [w \in Workers |-> InitLoc]
  /\ chunker = [w \in Workers |-> InitChunker]
  /\ redis = left.redis
  /\ s3 = left.s3
  /\ sup = InitSup
  /\ cf = InitCf
  /\ rs = InitRs
  /\ hist = [InitHist EXCEPT
        !.faults = MaxFaults - faults,
        !.events = MaxEvents - events,
        !.killed = left.killed,
        !.completed[Base(VideoPath)] =
           [h \in Fingerprints |->
              IF h = left.redis.file_hash[Base(VideoPath)] THEN runs ELSE 0],
        !.sinceEvent = [p \in Paths |-> IF p \in pending THEN 0 ELSE @[p]],
        !.emitted = [p \in Paths |-> p = VideoPath /\ p \notin pending]]

\* The two workers on the two paths of the channel, the detector at rest (the
\* video, which replaced one of another content while the process was down,
\* is not written, so that the rescans find the fingerprint they recorded
\* and the ticks no entry), and at most MaxFaults calls that fail.
InitRace ==
  Resting(ContentA, LeftStored(fileHash(ContentB)), 2, 0, {}, MaxFaults, 0)

NextRace == \E w \in Workers : Worker(w)

SpecRace == InitRace /\ [][NextRace]_vars

\* The two workers on the two paths of the channel, which name the same
\* video (the send after the startup scan and the one after the first
\* rescan), the detector at rest: no stream yet, or the fingerprint of
\* another content that the video replaced while the process was down. No
\* call fails; the keys that carry a TTL expire, MaxEvents times at most.
InitTwice ==
  \E left \in {NoStream, LeftStored(fileHash(ContentA))} :
    Resting(ContentB, left, 2, 0, {}, 0, MaxEvents)

NextTwice ==
  \/ \E w \in Workers : Worker(w)
  \/ \E s \in StreamIds : KeysExpire(s)

SpecTwice == InitTwice /\ [][NextTwice]_vars

\* The pool and the detector with two videos, both in place at startup with
\* the same short content, the first of which replaced one of another
\* content while the process was down: the first rescan has recorded both
\* fingerprints and the stability tick has then sent both paths, the first
\* video's first (one of the two orders in which it ranges over its map);
\* no worker has received yet, every goroutine is at its select, and the
\* first video was touched again: the loop of Start has read the event and
\* entered the path in seen. No call fails and nothing else happens to the
\* files.
InitFifo ==
  /\ file = [p \in Paths |-> IF p \in Videos THEN ContentB ELSE NoFile]
  /\ fsEvents = {}
  /\ started = TRUE
  /\ seen = [p \in Paths |-> IF p = VideoPath THEN 0 ELSE -1]
  /\ hashes = [p \in Paths |->
        IF p \in Videos THEN fileHash(ContentB) ELSE NoEntry]
  /\ mu = "free"
  /\ tick = InitTick
  /\ clock = InitClock
  /\ evloop = InitEvloop
  /\ rescan = InitRescan
  /\ fileCh = <<VideoPath, Video2Path>>
  /\ pc = [w \in Workers |-> "idle"]
  /\ loc = [w \in Workers |-> InitLoc]
  /\ chunker = [w \in Workers |-> InitChunker]
  /\ redis = LeftStored(fileHash(ContentA)).redis
  /\ s3 = InitS3
  /\ sup = InitSup
  /\ cf = InitCf
  /\ rs = InitRs
  /\ hist = [InitHist EXCEPT
        !.faults = MaxFaults,
        !.events = MaxEvents,
        !.sinceEvent[VideoPath] = 0,
        !.emitted = [p \in Paths |-> p = Video2Path]]

NextFifo ==
  \/ Detector
  \/ \E w \in Workers : Worker(w)

SpecFifo == InitFifo /\ [][NextFifo]_vars

\* The process once the channel is full and the video, a short one that
\* replaced one of another content while the process was down, was touched
\* again: no call fails, nothing else happens to the file.
InitPool ==
  Resting(ContentB, LeftStored(fileHash(ContentA)), 2, 0, {VideoPath}, 0, 0)

\* Shutdown of the whole pool with the two paths in the channel, the
\* detector at rest: a short video that replaced one of another content
\* while the process was down, the two workers, Run, and the signal, which
\* comes at any moment. No call fails before the signal.
InitStop == Resting(ContentB, LeftStored(fileHash(ContentA)), 2, 0, {}, 0, 0)

NextStop ==
  \/ \E w \in Workers : Worker(w) \/ WorkerExit(w)
  \/ Run
  \/ Cancel

SpecStop == InitStop /\ [][NextStop]_vars

\* The same shutdown with one path queued, for a video that was replaced by
\* a longer one after its stream was completed, and at most MaxFaults calls
\* failing before the signal,
\* when every worker goroutine that can take a step eventually takes one, a
\* select whose ctx.Done() case is ready again and again eventually takes
\* it, and Run goes on when it can.
FairEnd ==
  /\ \A w \in Workers : WF_vars(Worker(w)) /\ SF_vars(WorkerExit(w))
  /\ WF_vars(Run)

InitEnd == Resting(ContentA, LeftCompleted(ContentB), 2, 1, {}, MaxFaults, 0)

SpecEnd == InitEnd /\ [][NextStop]_vars /\ FairEnd

\* Shutdown of the detector with one worker, from the moment the channel is
\* full and the video was touched again; the signal comes at any moment.
\* Every goroutine that can take a step eventually takes one, time passes,
\* and a select whose ctx.Done() case is ready again and again eventually
\* takes it.
NextHalt ==
  \/ Detector
  \/ Events
  \/ \E t \in Tasks : TaskExit(t)
  \/ Worker(FirstWorker) \/ WorkerExit(FirstWorker)
  \/ Cancel

FairHalt ==
  /\ WF_vars(TimePass) /\ WF_vars(Tick) /\ WF_vars(Rescan) /\ WF_vars(Events)
  /\ \A t \in Tasks : SF_vars(TaskExit(t))
  /\ WF_vars(Worker(FirstWorker))
  /\ SF_vars(WorkerExit(FirstWorker))

SpecHalt == InitPool /\ [][NextHalt]_vars /\ FairHalt

\* The pool and the detector with no failing adapter call, no kill and no
\* signal, from this moment on: the video, in place at startup with content
\* A, was sent by the first tick and received by the first worker, which
\* has computed A's fingerprint and read the (empty) stored fingerprint and
\* status and is just before line 86; the video was then replaced by B;
\* the event was read, the rescan has recorded B's fingerprint, and the
\* stability tick has sent the path again. The file is not written any
\* more. Every goroutine that can take a step eventually takes one, and
\* time passes.
InitLive ==
  /\ file = [p \in Paths |-> IF p = VideoPath THEN ContentB ELSE NoFile]
  /\ fsEvents = {}
  /\ started = TRUE
  /\ seen = [p \in Paths |-> -1]
  /\ hashes = [p \in Paths |->
        IF p = VideoPath THEN fileHash(ContentB) ELSE NoEntry]
  /\ mu = "free"
  /\ tick = InitTick
  /\ clock = InitClock
  /\ evloop = InitEvloop
  /\ rescan = InitRescan
  /\ fileCh = <<VideoPath>>
  /\ pc = [w \in Workers |-> IF w = FirstWorker THEN "SetValue" ELSE "idle"]
  /\ loc = [w \in Workers |->
        IF w = FirstWorker
        THEN [InitLoc EXCEPT !.file = VideoPath,
                             !.hash = fileHash(ContentA)]
        ELSE InitLoc]
  /\ chunker = [w \in Workers |-> InitChunker]
  /\ redis = InitRedis
  /\ s3 = InitS3
  /\ sup = InitSup
  /\ cf = InitCf
  /\ rs = InitRs
  /\ hist = [InitHist EXCEPT !.faults = MaxFaults, !.events = MaxEvents,
                             !.filesInProgress = 1,
                             !.run[FirstWorker].dirty = TRUE,
                             !.emitted[VideoPath] = TRUE]

NextLive ==
  \/ TimePass
  \/ CheckStableFilesBegin
  \/ CheckStableFilesNext
  \/ Rescan
  \/ \E w \in Workers : Worker(w)

FairLive ==
  /\ WF_vars(TimePass)
  /\ WF_vars(CheckStableFilesBegin \/ CheckStableFilesNext)
  /\ WF_vars(Rescan)
  /\ \A w \in Workers : WF_vars(Worker(w))

SpecLive == InitLive /\ [][NextLive]_vars /\ FairLive

(***************************************************************************)
(* Claims.                                                                 *)
(***************************************************************************)
\* The worker is in a run of processFile whose file was not written since
\* the run was entered.
Undisturbed(w) == pc[w] # "idle" /\ ~hist.run[w].dirty

\* No call of the worker's run has failed so far and its chunk producer met
\* no read error.
NoCallFailed(w) ==
  /\ loc[w].errs = {}
  /\ ~loc[w].failed
  /\ loc[w].readErrs = {}
  /\ loc[w].markErrs = {}
  /\ ~loc[w].metaFailed
  /\ ~loc[w].producerErr

\* C1: a run in which UploadChunk failed for some chunk, or IsChunkUploaded
\* returned an error for some chunk, does not set the stream's status to
\* "completed": a run that has just written "completed" (and is about to set
\* the TTL) had no such failure.
C1_NoCompletionAfterFailure ==
  \A w \in Workers :
    (pc[w] = "SetStreamTTL" /\ "SetStreamStatus" \notin loc[w].errs) =>
      (~loc[w].failed /\ loc[w].readErrs = {})

\* C2: when UploadChunk failed for chunk i in an earlier run and the file is
\* unchanged, a later run in which every call succeeds calls UploadChunk for
\* exactly the indices that failed, and the status is "completed" after it.
C2_FailedChunkRetried ==
  \A w \in Workers :
    ( /\ pc[w] = "returned"
      /\ ~hist.run[w].dirty
      /\ hist.failedUpload[Base(loc[w].file)] # {}
      /\ NoCallFailed(w) ) =>
    ( /\ loc[w].uploadCalls = hist.failedUpload[Base(loc[w].file)]
      /\ redis.stream_status[Base(loc[w].file)] = "completed" )

\* The worker is at the start of a run on a file whose stream is completed
\* at the fingerprint the file has, no read of the run having failed: a
\* second run on unchanged content after a run that completed.
SecondRun(w) ==
  /\ pc[w] \in {"fileHash", "GetValue", "GetStreamStatus"}
  /\ loc[w].errs = {}
  /\ file[loc[w].file] # NoFile
  /\ redis.stream_status[Base(loc[w].file)] = "completed"
  /\ redis.file_hash[Base(loc[w].file)] = fileHash(file[loc[w].file])
  /\ pc[w] # "fileHash" => loc[w].hash = fileHash(file[loc[w].file])

\* C3: idempotence. Every step of a second run on unchanged content leaves
\* the object store and every checkpoint key as they are and makes no
\* UploadChunk call, and the run, its two reads of the checkpoint store
\* succeeding, ends at the already-processed test.
C3_SecondRunChangesNothing ==
  [][\A w \in Workers :
       (SecondRun(w) /\ pc'[w] # pc[w] /\ pc'[w] # "idle"
          /\ loc'[w].errs = {}) =>
         ( /\ redis' = redis
           /\ s3' = s3
           /\ loc'[w].uploadCalls = {}
           /\ pc'[w] \in {"GetValue", "GetStreamStatus", "returned"}
           /\ pc'[w] = "returned" => loc'[w].outcome = "skipped" )]_vars

\* C3 witness: a second run on unchanged content has returned.
C3_Witness ==
  \E w \in Workers :
    /\ pc[w] = "returned"
    /\ redis.stream_status[Base(loc[w].file)] = "completed"
    /\ redis.file_hash[Base(loc[w].file)] = loc[w].hash
    /\ loc[w].outcome = "skipped"
    /\ s3.metadata[Base(loc[w].file)] # NoMeta

\* The worker's run resumes a stream whose earlier run was killed inside the
\* chunk loop, on the file as it was then, and is through its own loop, the
\* producer having read the file to its end.
ResumedRunDone(w) ==
  /\ Undisturbed(w)
  /\ hist.run[w].resumed
  /\ ~loc[w].producerErr
  /\ pc[w] = "UploadMetadata"

\* C4 as stated: a run that resumes a killed run calls UploadChunk exactly
\* for the chunk indices whose chunk_uploaded key was unset when it began.
C4_ResumeUploadsUnset ==
  \A w \in Workers :
    ResumedRunDone(w) =>
      loc[w].uploadCalls =
        ChunkSet(file[loc[w].file]) \ hist.run[w].bits

\* C4 amended: a run that resumes a killed run calls UploadChunk exactly for
\* the chunk indices whose key was unset when it began and whose
\* IsChunkUploaded read did not fail; an index whose read fails is passed
\* over, and no index whose key was set is uploaded.
C4_ResumeUploadsUnsetAndRead ==
  \A w \in Workers :
    ResumedRunDone(w) =>
      /\ loc[w].uploadCalls =
           (ChunkSet(file[loc[w].file]) \ hist.run[w].bits)
              \ loc[w].readErrs
      /\ loc[w].uploadCalls \cap hist.run[w].bits = {}

\* C4 witness: a resumed run that found a chunk marked, uploaded another and
\* passed over a third, unmarked one, whose read failed.
C4_Witness ==
  \E w \in Workers :
    /\ ResumedRunDone(w)
    /\ hist.run[w].bits # {}
    /\ loc[w].uploadCalls # {}
    /\ loc[w].readErrs \ hist.run[w].bits # {}

\* The worker's run found the stream completed at a stored fingerprint other
\* than the file's, no call of the run failed, the file was not written
\* since, and the run has handed its metadata to UploadMetadata.
RunAfterChangeDone(w) ==
  /\ Undisturbed(w)
  /\ loc[w].status = "completed"
  /\ loc[w].prevHash # NoHash
  /\ loc[w].prevHash # loc[w].hash
  /\ loc[w].hash = fileHash(file[loc[w].file])
  /\ NoCallFailed(w)
  /\ pc[w] = "SetStreamStatus"

\* C5: the run that follows a completed stream's file being overwritten
\* with content of another fingerprint calls UploadChunk once for every
\* chunk index of the new content, and the metadata it uploads has
\* total_size equal to the new file's size.
C5_NewContentFullyUploaded ==
  \A w \in Workers :
    RunAfterChangeDone(w) =>
      /\ loc[w].uploadCalls = ChunkSet(file[loc[w].file])
      /\ loc[w].totalSize = Len(file[loc[w].file])

\* C6: fingerprint-change invalidation. A run, its calls succeeding, that
\* read a stored fingerprint which is non-empty and differs from the file's
\* has, when it is about to store the new one, deleted the status and then
\* set the progress to 0, the old fingerprint still stored (or expired) and
\* no UploadChunk call made; a run that read an empty or equal fingerprint
\* has deleted and reset nothing.
C6_InvalidationBeforeStore ==
  \A w \in Workers :
    LET s == Base(loc[w].file)
        differs == loc[w].prevHash # NoHash /\ loc[w].prevHash # loc[w].hash
    IN loc[w].errs = {} =>
       /\ pc[w] \in {"DeleteKey", "ResetProgress", "SetValue"} =>
            /\ loc[w].uploadCalls = {}
            /\ redis.file_hash[s] \in {loc[w].prevHash, NoHash}
            /\ redis.file_hash[s] # loc[w].hash \/ ~differs
       /\ pc[w] \in {"DeleteKey", "ResetProgress"} => differs
       /\ pc[w] = "ResetProgress" =>
            (loc[w].resets = 1 /\ redis.stream_status[s] = "")
       /\ pc[w] = "SetValue" =>
            IF differs
            THEN /\ loc[w].resets = 2
                 /\ redis.stream_status[s] = ""
                 /\ redis.stream_progress[s] = 0
            ELSE /\ loc[w].resets = 0
                 /\ redis.stream_status[s] \in {loc[w].status, ""}

\* C6 witness: a run about to store the new fingerprint of a file whose
\* stream was completed at another one, status deleted and progress reset.
C6_Witness ==
  \E w \in Workers :
    /\ pc[w] = "SetValue"
    /\ loc[w].errs = {}
    /\ loc[w].resets = 2
    /\ loc[w].status = "completed"
    /\ redis.file_hash[Base(loc[w].file)] \notin {NoHash, loc[w].hash}
    /\ redis.stream_status[Base(loc[w].file)] = ""

\* C7: whenever chunk_uploaded:<stream_id>:<i> is set, the object
\* <stream_id>/chunk-<i> exists; and a run about to write the checkpoint of
\* chunk i has written the object of chunk i.
C7_MarkedChunkHasObject ==
  /\ \A s \in StreamIds : \A i \in redis.chunk_uploaded[s] :
        s3.chunks[s][i] # NoData
  /\ \A w \in Workers :
        pc[w] = "SetChunkUploaded" =>
          s3.chunks[Base(loc[w].file)][loc[w].idx] = loc[w].data

\* C7 witness: a run has just marked the last chunk of the file, every chunk
\* of the stream is marked and has its object.
C7_Witness ==
  \E w \in Workers :
    /\ pc[w] = "SetStreamProgress"
    /\ loc[w].idx \in redis.chunk_uploaded[Base(loc[w].file)]
    /\ redis.chunk_uploaded[Base(loc[w].file)] = ChunkSet(ContentA)
    /\ s3.chunks[Base(loc[w].file)][loc[w].idx] = loc[w].data

\* C8 as stated: for a stream and a fingerprint, the status goes from another
\* value to "completed" at most once.
C8_CompletedOncePerFingerprint ==
  \A s \in StreamIds : \A h \in Fingerprints :
    hist.completed[s][h] <= 1

\* C8 amended: over all workers and all detections, a run that read the
\* stream completed at its file's fingerprint is not past line 75, where it
\* returned without a write; and the status of a stream goes to "completed"
\* a second time for one fingerprint only when a key of the stream expired
\* or a run read, at line 70, a stored fingerprint that is not its file's
\* (a run for changed content, or one of two overlapping runs for new
\* content). Duplicate detections of an unchanged file whose stored
\* fingerprint is absent or the file's, also when two workers handle them at
\* the same time, complete the fingerprint once.
C8_CompletedAgainOnlyAfterLoss ==
  /\ \A w \in Workers :
        pc[w] \notin {"idle", "fileHash", "GetValue", "GetStreamStatus",
                      "returned", "exited"} =>
          ~(loc[w].prevHash = loc[w].hash /\ loc[w].status = "completed")
  /\ \A s \in StreamIds : \A h \in Fingerprints :
        hist.completed[s][h] = 2 => s \in hist.expired \cup hist.staleRead

\* C8 witness: two workers handle the two detections of one unchanged file
\* at the same time; both have written "completed", no key has expired and
\* neither read a fingerprint of another content, and the fingerprint was
\* completed once.
C8_Witness ==
  \E w, v \in Workers :
    /\ w # v
    /\ pc[w] = "SetStreamTTL" /\ pc[v] = "SetStreamTTL"
    /\ loc[w].file = loc[v].file
    /\ loc[w].hash = loc[v].hash
    /\ Base(loc[w].file) \notin hist.expired \cup hist.staleRead
    /\ hist.completed[Base(loc[w].file)][loc[w].hash] = 1
    /\ redis.stream_status[Base(loc[w].file)] = "completed"

\* C9 as stated, first half: across the pool there is never more than one
\* UploadChunk call in flight for the same stream.
C9_OneUploadInFlight ==
  \A w1, w2 \in Workers :
    ( /\ pc[w1] = "UploadChunk"
      /\ pc[w2] = "UploadChunk"
      /\ Base(loc[w1].file) = Base(loc[w2].file) ) => w1 = w2

\* C9 amended: within one run the UploadChunk calls are made one at a time
\* with strictly increasing indices, and the chunks the run records are in
\* ascending index order; two workers that were handed the same path can
\* each have a call in flight for the stream.
C9_IncreasingWithinRun ==
  \A w \in Workers :
    /\ pc[w] = "UploadChunk" =>
          \A j \in loc[w].uploadCalls : j < loc[w].idx
    /\ \A m, n \in 1..Len(loc[w].chunkMetas) :
          m < n => loc[w].chunkMetas[m].index < loc[w].chunkMetas[n].index

\* C9 witness: two workers about to call UploadChunk for the same stream,
\* one of them after earlier calls of its run.
C9_Witness ==
  \E w1, w2 \in Workers :
    /\ w1 # w2
    /\ pc[w1] = "UploadChunk"
    /\ pc[w2] = "UploadChunk"
    /\ Base(loc[w1].file) = Base(loc[w2].file)
    /\ loc[w1].uploadCalls # {}

\* The stability tick takes a step of filterFile in this step (and the
\* process is not killed).
FilterStep(at) == tick.pc = at /\ tick' # tick /\ started'

\* A read of filterFile failed in this step.
FilterReadFailed == hist'.faults # hist.faults

\* C10 as stated: when the stability tick decides on a candidate, one whose
\* stored file_hash equals its current fingerprint and whose stream_status
\* is "completed" is not sent, and in every other combination it is sent.
C10_FilterOnStoredState ==
  [][FilterStep("GetValue") =>
       IF /\ redis.file_hash[Base(tick.file)] = fileHash(file[tick.file])
          /\ redis.stream_status[Base(tick.file)] = "completed"
       THEN tick'.pc = "range" /\ fileCh' = fileCh
       ELSE tick'.pc = "send"]_vars

\* C10, amended: detector filter. At a stability tick, filterFile computes the
\* candidate's fingerprint, reads its status and then its stored
\* fingerprint; a candidate whose stored fingerprint, as read, equals the
\* computed one and whose status, as read, is "completed" is dropped without
\* being sent; in every other combination the tick goes on to send it, and
\* the send appends it to the worker channel. A read that fails gives "".
C10_DetectorFilter ==
  [][/\ \A p \in Paths :
          ( /\ FilterStep("range")
            /\ p \in tick.left
            /\ p \notin tick'.left
            /\ isAllowedExt(p) ) =>
          /\ tick'.pc = "GetStreamStatus"
          /\ tick'.file = p
          /\ tick'.hash = fileHash(file[p])
     /\ FilterStep("GetStreamStatus") =>
          /\ tick'.pc = "GetValue"
          /\ tick'.status = IF FilterReadFailed THEN ""
                            ELSE redis.stream_status[Base(tick.file)]
     /\ FilterStep("GetValue") =>
          LET prevHash == IF FilterReadFailed THEN NoHash
                          ELSE redis.file_hash[Base(tick.file)]
          IN IF prevHash = tick.hash /\ tick.status = "completed"
             THEN /\ tick'.pc = "range"
                  /\ fileCh' = fileCh
                  /\ seen'[tick.file] = -1
             ELSE /\ tick'.pc = "send"
                  /\ tick'.file = tick.file
     /\ (tick.pc = "send" /\ tick'.pc = "range") =>
          fileCh' = Append(fileCh, tick.file)]_vars

\* C10 witness: a tick has dropped a completed, unchanged candidate and
\* nothing was sent.
C10_Witness ==
  \E p \in Paths :
    /\ p \in tick.skipped
    /\ fileCh = <<>>
    /\ redis.stream_status[Base(p)] = "completed"
    /\ redis.file_hash[Base(p)] = fileHash(file[p])


\* The stability tick sends tick.file to the channel in this step.
Emits == tick.pc = "send" /\ tick'.pc = "range"

\* C11: every path the detector sends to the worker channel had no create,
\* write, rename or chmod during the stability window right before the send;
\* a path touched after an emission is sent again only after a fresh window
\* without events. The events counted are those the event loop has read and
\* recorded: one still unread, or read and waiting for the lock the tick
\* holds, is left out.
C11_QuietWindowBeforeSend ==
  [][(Emits /\ tick.file \notin fsEvents /\ evloop.file # tick.file) =>
       hist.sinceEvent[tick.file] > StabilityThreshold]_vars


\* C12: a file whose fingerprint does not change and that receives no
\* further event is sent to the worker channel once, whether it was present
\* at startup or appeared later: no send of a path that this process already
\* sent since the file was last written or touched.
C12_EmittedOnce ==
  [][Emits => ~hist.emitted[tick.file]]_vars


\* C13: a path whose lower-cased extension is not in the configured format
\* set is never sent to the worker channel, however it entered the detector:
\* every path in the channel or received by a worker has an allowed
\* extension.
C13_OnlyAllowedExtSent ==
  /\ \A i \in 1..Len(fileCh) : ToLower(Ext(fileCh[i])) \in VideoFileFormats
  /\ \A w \in Workers :
       pc[w] # "idle" => ToLower(Ext(loc[w].file)) \in VideoFileFormats

\* A tick found the entry of the other file stable and deleted it unsent.
C13_Witness ==
  /\ NotePath \in tick.dropped
  /\ file[NotePath] # NoFile


\* C14: Run returns only after cancellation and only when every worker has
\* returned, so never while a worker is inside processFile; a worker leaves
\* its loop only from the select, so one that is processing a path when the
\* signal comes finishes that processFile call before it exits.
C14_GracefulShutdown ==
  /\ [](sup.pc = "returned" =>
          sup.cancelled /\ \A w \in Workers : pc[w] = "exited")
  /\ [][\A w \in Workers :
          (pc[w] # "exited" /\ pc'[w] = "exited") => pc[w] = "idle"]_vars

\* After the signal Run is at wg.Wait() while a worker is inside the chunk
\* loop of processFile and the other worker has left.
C14_Witness ==
  /\ sup.cancelled
  /\ sup.pc = "Wait"
  /\ \E w, v \in Workers : pc[w] = "UploadChunk" /\ pc[v] = "exited"

\* C15: after cancellation every task of the detector (the event loop, the
\* periodic rescan, the stability tick) eventually terminates, also when the
\* tick is blocked sending to a full channel at the moment of cancellation.
C15_DetectorTerminates ==
  sup.cancelled ~> (\A t \in Tasks : sup.tasks[t] = "exited")


\* The metadata blob lists every chunk of `content` once, in ascending order
\* of index, and its total_size is the length of `content`.
MetadataDescribes(meta, content) ==
  /\ meta.total_size = Len(content)
  /\ Len(meta.chunks) = NumChunks(content)
  /\ \A k \in 1..Len(meta.chunks) : meta.chunks[k].index = k - 1

\* C16: whenever a run has uploaded the metadata blob and marked the stream
\* completed, the blob's total_size is the size of the file and its chunks
\* list has one entry for every chunk index of the file in ascending order,
\* in a first run as in one that resumes after an interruption or a failed
\* chunk.
C16_MetadataComplete ==
  \A w \in Workers :
    ( /\ pc[w] = "SetStreamTTL"
      /\ "SetStreamStatus" \notin loc[w].errs
      /\ Undisturbed(w)
      /\ s3.metadata[Base(loc[w].file)] =
           [total_size |-> loc[w].totalSize, chunks |-> loc[w].chunkMetas] )
    => MetadataDescribes(s3.metadata[Base(loc[w].file)], file[loc[w].file])


\* The status key of the completed stream s expires in this step.
StatusExpires(s) ==
  /\ redis.stream_status[s] = "completed"
  /\ redis.status_ttl[s]
  /\ redis'.stream_status[s] = ""
  /\ pc' = pc

\* C18: after a stream is completed all its checkpoint keys (file_hash,
\* stream_status, stream_progress, every chunk_uploaded bit) carry a TTL and
\* expire together: when the status key of a completed stream expires, no
\* chunk_uploaded or stream_progress key of the stream is left.
C18_KeysExpireTogether ==
  [][\A s \in StreamIds :
       StatusExpires(s) =>
         /\ redis'.chunk_uploaded[s] = {}
         /\ redis'.stream_progress[s] = NoProgress]_vars


\* A run that read a stored fingerprint other than the file's deletes the
\* status of stream s in this step and is next at the reset of the progress.
DeletedOnChange(s) ==
  \E w \in Workers :
    /\ pc[w] = "DeleteKey"
    /\ Base(loc[w].file) = s
    /\ loc[w].prevHash # NoHash
    /\ loc[w].prevHash # loc[w].hash
    /\ pc'[w] = "ResetProgress"

\* C17 as stated: the status only moves absent -> in_progress -> completed;
\* every write of "completed" finds the status in_progress, and the status
\* leaves "completed" only through the deletion by a run that observed a
\* stored fingerprint different from the file's, which also resets progress.
C17_ViaInProgress ==
  [][\A s \in StreamIds :
       LET old == redis.stream_status[s]
           new == redis'.stream_status[s]
       IN /\ (new = "completed" /\ old # new) => old = "in_progress"
          /\ (old = "completed" /\ old # new) => DeletedOnChange(s)]_vars

\* C17 amended: the status key is absent or "completed"; it becomes
\* "completed" from absent by line 131 of a run, and it leaves "completed"
\* only by that deletion, followed by the reset, or by the expiry of its TTL.
C17_AbsentOrCompleted ==
  /\ [](\A s \in StreamIds : redis.stream_status[s] \in {"", "completed"})
  /\ [][\A s \in StreamIds :
          LET old == redis.stream_status[s]
              new == redis'.stream_status[s]
          IN /\ (new = "completed" /\ old # new) =>
                  \E w \in Workers : /\ pc[w] = "SetStreamStatus"
                                      /\ Base(loc[w].file) = s
             /\ (old = "completed" /\ old # new) =>
                  DeletedOnChange(s) \/ StatusExpires(s)]_vars

\* A run found the stream completed under another fingerprint, has deleted
\* the status and is about to reset the progress.
C17_Witness ==
  \E w \in Workers :
    /\ pc[w] = "ResetProgress"
    /\ loc[w].status = "completed"
    /\ redis.stream_status[Base(loc[w].file)] = ""
    /\ redis.stream_progress[Base(loc[w].file)] > 0


\* The positions of processFile after line 86 has stored the fingerprint.
PastSetValue == InLoop \cup {"ChunkFile", "UploadMetadata", "SetStreamStatus",
                             "SetStreamTTL"}

\* C19: in every state, also with several workers on one stream while the
\* file is rewritten, file_hash:<stream_id> is the fingerprint computed by
\* the most recently started run that got past the fingerprint check: of two
\* runs that have both stored their fingerprint, one entered before the last
\* rewrite and one after it, the stored value is the later run's.
C19_NewestRunsFingerprint ==
  \A v, w \in Workers :
    ( /\ pc[v] \in PastSetValue
      /\ pc[w] \in PastSetValue
      /\ loc[v].file = loc[w].file
      /\ hist.run[w].dirty
      /\ ~hist.run[v].dirty )
    => redis.file_hash[Base(loc[v].file)] = loc[v].hash


\* ceil(n / size)
CeilDiv(n, size) == (n + size - 1) \div size

\* C20: for every file of N bytes and chunk size S > 0 the producer, when
\* every read of the file works, emits exactly ceil(N/S) chunks, with
\* indices 0, 1, ... in contiguous increasing order; every chunk but the
\* last has length S, the last has a length in 1..S, none is empty, and an
\* empty file yields no chunk. A producer stopped by a read error has
\* emitted full chunks only, fewer than ceil(N/S), with the same indices.
C20_ChunkCountAndLengths ==
  LET n == Len(cf.out)
  IN /\ \A k \in 1..n :
          /\ cf.out[k].Index = k - 1
          /\ Len(cf.out[k].Data) \in 1..cf.size
          /\ k < n => Len(cf.out[k].Data) = cf.size
     /\ (cf.st = "closed" /\ ~cf.readErr) =>
          /\ n = CeilDiv(Len(cf.content), cf.size)
          /\ Len(cf.content) = 0 => cf.out = <<>>
     /\ cf.readErr =>
          /\ cf.st = "closed"
          /\ n <= CeilDiv(Len(cf.content), cf.size)
          /\ \A k \in 1..n : Len(cf.out[k].Data) = cf.size

\* The producer has closed the channel after several full chunks and a
\* short last one.
C20_Witness ==
  /\ cf.st = "closed"
  /\ ~cf.readErr
  /\ Len(cf.out) >= 3
  /\ Len(cf.out[Len(cf.out)].Data) < cf.size


\* The worker's run, on a file whose stream is completed at the fingerprint
\* the file has, passes the test of line 72 in this step.
SecondRunDecides(w) ==
  /\ SecondRun(w)
  /\ pc[w] = "GetStreamStatus"
  /\ pc'[w] # pc[w]
  /\ pc'[w] # "idle"

\* C21 as stated: a second run on an unchanged file that a first run
\* completed goes on to its single UploadMetadata call: it does not return
\* before that call, it makes no UploadChunk call, and the status stays
\* "completed".
C21_SecondRunOneMetadataCall ==
  [][\A w \in Workers :
       /\ (SecondRunDecides(w) /\ loc'[w].errs = {}) => pc'[w] # "returned"
       /\ (SecondRun(w) /\ pc'[w] = "returned") =>
            /\ loc'[w].metaCalls = 1
            /\ loc'[w].uploadCalls = {}
            /\ redis'.stream_status[Base(loc[w].file)] = "completed"]_vars

\* C21 amended: a second run on an unchanged file that a first run
\* completed, its two reads succeeding, returns at the test of line 72
\* having made no UploadMetadata call and no UploadChunk call; the metadata
\* object is the one the first run left and the status stays "completed".
C21_SecondRunNoMetadataCall ==
  [][\A w \in Workers :
       (SecondRunDecides(w) /\ loc'[w].errs = {}) =>
         /\ pc'[w] = "returned"
         /\ loc'[w].metaCalls = 0
         /\ loc'[w].uploadCalls = {}
         /\ s3'.metadata = s3.metadata
         /\ redis'.stream_status[Base(loc[w].file)] = "completed"]_vars

\* A run has returned without a metadata call from a stream that an earlier
\* run completed at the fingerprint the run computed, metadata uploaded.
C21_Witness ==
  \E w \in Workers :
    /\ pc[w] = "returned"
    /\ loc[w].metaCalls = 0
    /\ loc[w].hash # NoHash
    /\ loc[w].prevHash = loc[w].hash
    /\ loc[w].hash = fileHash(file[loc[w].file])
    /\ hist.completed[Base(loc[w].file)][loc[w].hash] = 1
    /\ redis.stream_status[Base(loc[w].file)] = "completed"
    /\ s3.metadata[Base(loc[w].file)].total_size = Len(file[loc[w].file])


\* The worker takes a step of its run in this step (and is not killed).
RunStep(w) == pc'[w] # pc[w] /\ pc'[w] # "idle"

\* C22: a run whose UploadMetadata call fails still goes on to the call that
\* sets stream_status:<stream_id> to "completed" and to the one that puts the
\* TTL on it, each with its effect unless it fails itself; the failed
\* UploadMetadata call changes neither store.
C22_MetadataFailureStillCompletes ==
  [][\A w \in Workers :
       LET s == Base(loc[w].file)
       IN /\ (pc[w] = "UploadMetadata" /\ RunStep(w)) =>
               /\ pc'[w] = "SetStreamStatus"
               /\ redis' = redis
               /\ loc'[w].metaFailed => s3' = s3
          /\ (pc[w] = "SetStreamStatus" /\ loc[w].metaFailed /\ RunStep(w)) =>
               /\ pc'[w] = "SetStreamTTL"
               /\ \/ redis'.stream_status[s] = "completed"
                  \/ "SetStreamStatus" \in loc'[w].errs
          /\ (pc[w] = "SetStreamTTL" /\ loc[w].metaFailed /\ RunStep(w)) =>
               /\ pc'[w] = "returned"
               /\ loc'[w].outcome = "completed"
               /\ loc'[w].errs = {} =>
                    /\ redis'.stream_status[s] = "completed"
                    /\ redis'.status_ttl[s]]_vars

\* A run whose metadata upload failed has returned: the stream is completed
\* with its TTL and has no metadata object.
C22_Witness ==
  \E w \in Workers :
    /\ pc[w] = "returned"
    /\ loc[w].metaFailed
    /\ loc[w].outcome = "completed"
    /\ redis.stream_status[Base(loc[w].file)] = "completed"
    /\ redis.status_ttl[Base(loc[w].file)]
    /\ s3.metadata[Base(loc[w].file)] = NoMeta


\* The key the last call of the adapter looked up, for the two lookups that
\* return a string.
LookedUp ==
  IF rs.call.op = "GetValue" THEN rs.call.args[1]
  ELSE StatusKey(rs.call.args[1])

\* C23: GetValue and GetStreamStatus on a key that does not exist, the
\* client's call not failing, return the empty string and no error.
C23_MissingKeyNoError ==
  ( /\ rs.call.op \in {"GetValue", "GetStreamStatus"}
    /\ LookedUp \notin DOMAIN rs.data
    /\ rs.call.err # "fail" )
  => (rs.call.val = "" /\ rs.call.err = "nil")


\* The key chunk_uploaded:<stream_id>:<i zero-padded to 5>, written out for
\* the indices of UnitIdx.
PaddedChunkKey(streamID, chunkIdx) ==
  <<"chunk_uploaded:">> \o streamID \o <<":">> \o
    (CASE chunkIdx = 1 -> <<"0", "0", "0", "0", "1">>
       [] chunkIdx = 12 -> <<"0", "0", "0", "1", "2">>)

\* The key of (streamID, chunkIdx) exists in `data` with a truthy value.
Truthy(data, streamID, chunkIdx) ==
  /\ PaddedChunkKey(streamID, chunkIdx) \in DOMAIN data
  /\ data[PaddedChunkKey(streamID, chunkIdx)] \in {"1", "true"}

\* C24: IsChunkUploaded(s, i), the client's call not failing, returns no
\* error and true iff the key chunk_uploaded:<s>:<i zero-padded to 5> exists
\* with value "1" or "true" (false for a missing key); when the client's
\* call fails it returns false with the error. A successful
\* SetChunkUploaded(s, i) makes the pair truthy, leaves every other key as
\* it was, and changes nothing when the key already held its value.
C24_ChunkUploadedContract ==
  /\ [](rs.call.op = "IsChunkUploaded" =>
          IF rs.call.err = "fail" THEN rs.call.val = FALSE
          ELSE /\ rs.call.err = "nil"
               /\ rs.call.val = Truthy(rs.data, rs.call.args[1],
                                       rs.call.args[2]))
  /\ [][(rs'.call.op = "SetChunkUploaded" /\ rs'.call.err = "nil") =>
          LET s == rs'.call.args[1]
              i == rs'.call.args[2]
          IN /\ Truthy(rs'.data, s, i)
             /\ \A t \in UnitStreams, j \in UnitIdx :
                  <<t, j>> # <<s, i>> =>
                    Truthy(rs'.data, t, j) = Truthy(rs.data, t, j)
             /\ \A k \in (DOMAIN rs.data \cup DOMAIN rs'.data)
                          \ {PaddedChunkKey(s, i)} :
                  /\ k \in DOMAIN rs.data
                  /\ k \in DOMAIN rs'.data
                  /\ rs'.data[k] = rs.data[k]
             /\ ( /\ PaddedChunkKey(s, i) \in DOMAIN rs.data
                  /\ rs.data[PaddedChunkKey(s, i)] = "1" ) =>
                  rs'.data = rs.data]_vars

\* SetChunkUploaded has returned without error for a pair whose key now
\* holds "1", while the key of the stream's other index holds "0" and the
\* other stream has no chunk key.
C24_Witness ==
  /\ rs.call.op = "SetChunkUploaded"
  /\ rs.call.err = "nil"
  /\ rs.call.args = <<<<"f", "o", "o">>, 12>>
  /\ Truthy(rs.data, <<"f", "o", "o">>, 12)
  /\ PaddedChunkKey(<<"f", "o", "o">>, 1) \in DOMAIN rs.data
  /\ rs.data[PaddedChunkKey(<<"f", "o", "o">>, 1)] = "0"
  /\ \A j \in UnitIdx : ~Truthy(rs.data, <<"b", "a", "r">>, j)


\* The streams that have a status key whose value is not "completed".
Incomplete(data) ==
  {s \in UnitStreams :
     /\ StatusKey(s) \in DOMAIN data
     /\ data[StatusKey(s)] # "completed"}

\* C25: ScanIncompleteStreams, returning no error, returns exactly the
\* stream ids that have a stream_status:<stream_id> key whose value is not
\* "completed": no completed stream is in the result and no stream with
\* another status is left out.
C25_ScanReturnsIncomplete ==
  (rs.call.op = "ScanIncompleteStreams" /\ rs.call.err = "nil")
  => rs.call.val = Incomplete(rs.data)


\* The indices of the chunks the run has appended to chunkMetas.
MetaIndices(w) ==
  {loc[w].chunkMetas[k].index : k \in 1..Len(loc[w].chunkMetas)}

\* C26: when IsChunkUploaded returns an error for chunk i, the step changes
\* neither store nor the run's metadata list and total size, and the run
\* goes back to the range; the run is never at UploadChunk, SetChunkUploaded
\* or SetStreamProgress for i, i is not among its upload calls nor in its
\* metadata list, and its next chunk, if any, is i + 1.
C26_ReadErrorSkipsChunk ==
  /\ [](\A w \in Workers :
          /\ loc[w].readErrs \cap loc[w].uploadCalls = {}
          /\ loc[w].readErrs \cap MetaIndices(w) = {}
          /\ pc[w] \in {"UploadChunk", "SetChunkUploaded", "SetStreamProgress"}
                => loc[w].idx \notin loc[w].readErrs)
  /\ [][\A w \in Workers :
          /\ ( /\ pc[w] = "IsChunkUploaded"
               /\ RunStep(w)
               /\ loc'[w].readErrs # loc[w].readErrs ) =>
               /\ loc'[w].readErrs = loc[w].readErrs \cup {loc[w].idx}
               /\ pc'[w] = "range"
               /\ redis' = redis
               /\ s3' = s3
               /\ loc'[w].chunkMetas = loc[w].chunkMetas
               /\ loc'[w].totalSize = loc[w].totalSize
               /\ loc'[w].uploadCalls = loc[w].uploadCalls
          /\ ( /\ pc[w] = "range"
               /\ loc[w].idx \in loc[w].readErrs
               /\ RunStep(w) ) =>
               \/ pc'[w] = "UploadMetadata"
               \/ /\ pc'[w] = "IsChunkUploaded"
                  /\ loc'[w].idx = loc[w].idx + 1]_vars

\* A run is about to upload chunk i + 1 after the read for chunk i failed:
\* chunk i is not marked, has no object, and the progress is not i.
C26_Witness ==
  \E w \in Workers :
    /\ pc[w] = "UploadChunk"
    /\ loc[w].idx - 1 \in loc[w].readErrs
    /\ loc[w].idx - 1 \notin redis.chunk_uploaded[Base(loc[w].file)]
    /\ s3.chunks[Base(loc[w].file)][loc[w].idx - 1] = NoData
    /\ redis.stream_progress[Base(loc[w].file)] # loc[w].idx - 1


\* C27: when UploadChunk for chunk i succeeded and SetChunkUploaded for i
\* fails, the run goes on: the failing step appends chunk i to the metadata
\* list and adds its length to the total size, leaving the store as it is;
\* the next step is the call that sets stream_progress to i (which it does
\* unless it fails itself); and the range then takes chunk i + 1, if there
\* is one.
C27_MarkErrorNotFatal ==
  [][\A w \in Workers :
       LET s == Base(loc[w].file)
           i == loc[w].idx
       IN /\ (pc[w] = "SetChunkUploaded" /\ RunStep(w)) =>
               /\ pc'[w] = "SetStreamProgress"
               /\ loc'[w].chunkMetas =
                    Append(loc[w].chunkMetas,
                           [index |-> i, checksum |-> Checksum(loc[w].data)])
               /\ loc'[w].totalSize = loc[w].totalSize + Len(loc[w].data)
               /\ i \in loc'[w].markErrs => redis' = redis
               /\ i \notin loc'[w].markErrs =>
                    i \in redis'.chunk_uploaded[s]
          /\ ( /\ pc[w] = "SetStreamProgress"
               /\ i \in loc[w].markErrs
               /\ RunStep(w) ) =>
               /\ pc'[w] = "range"
               /\ \/ redis'.stream_progress[s] = i
                  \/ "SetStreamProgress" \in loc'[w].errs
          /\ ( /\ pc[w] = "range"
               /\ i \in loc[w].markErrs
               /\ RunStep(w) ) =>
               \/ pc'[w] = "UploadMetadata"
               \/ /\ pc'[w] = "IsChunkUploaded"
                  /\ loc'[w].idx = i + 1]_vars

\* A run is at chunk i + 1 after SetChunkUploaded failed for chunk i: the
\* object of chunk i is stored, its key is not set, it is in the metadata
\* list and it is the progress.
C27_Witness ==
  \E w \in Workers :
    /\ pc[w] = "IsChunkUploaded"
    /\ loc[w].idx - 1 \in loc[w].markErrs
    /\ loc[w].idx - 1 \in MetaIndices(w)
    /\ loc[w].totalSize > 0
    /\ s3.chunks[Base(loc[w].file)][loc[w].idx - 1] # NoData
    /\ loc[w].idx - 1 \notin redis.chunk_uploaded[Base(loc[w].file)]
    /\ redis.stream_progress[Base(loc[w].file)] = loc[w].idx - 1


\* C28: a run whose fingerprint comes out empty (the file cannot be opened)
\* returns in that step with both stores as they are, and a run is at no
\* call of the checkpoint store or the object store without a fingerprint.
C28_NoHashNoMutation ==
  /\ [](\A w \in Workers :
          loc[w].hash = NoHash =>
            /\ pc[w] \in {"idle", "exited", "fileHash", "returned"}
            /\ loc[w].uploadCalls = {}
            /\ loc[w].metaCalls = 0
            /\ loc[w].resets = 0)
  /\ [][\A w \in Workers :
          ( /\ pc[w] = "fileHash"
            /\ fileHash(file[loc[w].file]) = NoHash
            /\ RunStep(w) ) =>
            /\ pc'[w] = "returned"
            /\ loc'[w].hash = NoHash
            /\ redis' = redis
            /\ s3' = s3]_vars

\* A run on a path whose file is gone has returned without a fingerprint;
\* the stream's keys and objects of an earlier run are in place.
C28_Witness ==
  \E w \in Workers :
    /\ pc[w] = "returned"
    /\ loc[w].hash = NoHash
    /\ file[loc[w].file] = NoFile
    /\ redis.file_hash[Base(loc[w].file)] # NoHash
    /\ redis.stream_status[Base(loc[w].file)] = "completed"
    /\ s3.metadata[Base(loc[w].file)] # NoMeta


\* The positions of processFile up to the open of the chunk producer.
UpToOpen == {"fileHash", "GetValue", "GetStreamStatus", "DeleteKey",
             "ResetProgress", "SetValue", "ChunkFile"}

\* C29: a run whose open of the chunk producer fails returns in that step,
\* having made no UploadChunk and no UploadMetadata call, with both stores
\* as they are; and the steps of a run up to the open change nothing in the
\* object store and, in the checkpoint store, only delete the status and set
\* the progress to 0 after a changed fingerprint and write file_hash: none
\* of them writes "completed" or a chunk_uploaded key.
C29_OpenFailureReturns ==
  /\ [](\A w \in Workers :
          (pc[w] = "returned" /\ loc[w].outcome = "openfail") =>
            /\ loc[w].uploadCalls = {}
            /\ loc[w].metaCalls = 0
            /\ loc[w].chunkMetas = <<>>)
  /\ [][\A w \in Workers :
          LET s == Base(loc[w].file)
              changed == HashChanged(loc[w].prevHash, loc[w].hash)
          IN /\ ( /\ pc[w] = "ChunkFile"
                  /\ file[loc[w].file] = NoFile
                  /\ RunStep(w) ) =>
                  /\ pc'[w] = "returned"
                  /\ loc'[w].outcome = "openfail"
                  /\ redis' = redis
                  /\ s3' = s3
             /\ (pc[w] \in UpToOpen /\ RunStep(w)) =>
                  /\ s3' = s3
                  /\ redis'.chunk_uploaded = redis.chunk_uploaded
                  /\ redis'.stream_status # redis.stream_status =>
                       /\ pc[w] = "DeleteKey"
                       /\ changed
                       /\ redis'.stream_status =
                            [redis.stream_status EXCEPT ![s] = ""]
                  /\ redis'.stream_progress # redis.stream_progress =>
                       /\ pc[w] = "ResetProgress"
                       /\ changed
                       /\ redis'.stream_progress =
                            [redis.stream_progress EXCEPT ![s] = 0]
                  /\ redis'.file_hash # redis.file_hash =>
                       /\ pc[w] = "SetValue"
                       /\ redis'.file_hash =
                            [redis.file_hash EXCEPT ![s] = loc[w].hash]]_vars

\* A run found a completed stream under another fingerprint, reset it,
\* stored the new fingerprint and returned from the failed open: the status
\* is absent, the progress 0, and the file is gone.
C29_Witness ==
  \E w \in Workers :
    /\ pc[w] = "returned"
    /\ loc[w].outcome = "openfail"
    /\ loc[w].resets = 2
    /\ file[loc[w].file] = NoFile
    /\ redis.file_hash[Base(loc[w].file)] = loc[w].hash
    /\ redis.stream_status[Base(loc[w].file)] = ""
    /\ redis.stream_progress[Base(loc[w].file)] = 0


\* C30: the detector's mutex is held only around lookups and inserts of the
\* two maps: the stability tick does not hold it while it reads the
\* checkpoint store in filterFile, nor while it is at the send on the path
\* channel.
C30_ShortCriticalSections ==
  tick.pc \in {"GetStreamStatus", "GetValue", "send"} => mu = "free"

\* A worker takes the case `file := <-fileCh` of its select.
Receives(w) == pc[w] = "idle" /\ pc'[w] = "fileHash"

\* C31: the path channel is a FIFO queue of bounded capacity: it never holds
\* more than ChannelCap paths; the detector's send adds its path at the end
\* and only while the channel is not full, the tick resting at the send
\* while it is; a receive hands the worker the oldest path and removes it,
\* and one step is the receive of one worker only, so that a path sent is
\* received by at most one worker.
C31_ChannelFifo ==
  /\ [](Len(fileCh) <= ChannelCap)
  /\ [][(tick.pc = "send" /\ Len(fileCh) = ChannelCap) => tick' = tick]_vars
  /\ [][Emits => Len(fileCh) < ChannelCap
                  /\ fileCh' = Append(fileCh, tick.file)]_vars
  /\ [][\A w \in Workers : Receives(w) =>
          /\ fileCh # <<>>
          /\ loc'[w].file = Head(fileCh)
          /\ fileCh' = Tail(fileCh)
          /\ \A v \in Workers \ {w} : ~Receives(v)]_vars
  /\ [][fileCh' # fileCh => Emits \/ \E w \in Workers : Receives(w)]_vars

\* C31 witness: the channel is full of two different paths and the
\* stability tick is at its send with one more, a worker being at its
\* select and about to receive.
C31_Witness ==
  /\ Len(fileCh) = ChannelCap
  /\ fileCh[1] # fileCh[2]
  /\ tick.pc = "send"
  /\ \E w \in Workers : pc[w] = "idle"

\* C32: once ctx is cancelled no worker takes a path from the channel: a
\* worker at its select with ctx.Done() closed never enters processFile,
\* also when paths are queued.
C32_NoReceiveAfterCancel ==
  [][\A w \in Workers : sup.cancelled => ~Receives(w)]_vars

\* The positions of a worker outside processFile.
Outside == {"idle", "returned", "exited"}

\* C33: after cancellation every worker eventually exits and Run eventually
\* returns; every call of processFile returns; the chunk producer a call
\* started has terminated, its channel closed and drained, when the call
\* returns, whatever failed on the way.
C33_Termination ==
  /\ sup.cancelled ~> (sup.pc = "returned" /\ \A w \in Workers : pc[w] = "exited")
  /\ \A w \in Workers : (pc[w] \notin Outside) ~> (pc[w] = "returned")
  /\ \A w \in Workers : (chunker[w].st # "off") ~> (chunker[w].st = "off")
  /\ [](\A w \in Workers : pc[w] \in Outside => chunker[w].st = "off")

\* After the signal a worker is inside the chunk loop, its producer running,
\* after a call of its run has failed, while the other worker has left.
C33_Witness ==
  /\ sup.cancelled
  /\ \E w, v \in Workers :
       /\ pc[w] \in InLoop
       /\ loc[w].readErrs # {}
       /\ chunker[w].st = "reading"
       /\ pc[v] = "exited"

\* A stability tick begins: checkStableFiles takes the lock.
TickBegins == tick.pc = "idle" /\ tick'.pc = "range"

\* C34: Watcher.Start enters every existing file of an allowed extension in
\* seen as older than the stability window; the first stability tick of the
\* process finds each of these entries stable (unless an event for the path
\* was read before it) and, like every tick, passes each stable path of an
\* allowed extension through filterFile and sends it to the channel unless
\* the status it read is "completed" and the stored fingerprint it read is
\* the file's, in which case it deletes the entry; so the stream of a run
\* that was killed is sent again after the restart.
C34_RestartRecovery ==
  /\ [][(~started /\ started') =>
          \A p \in Paths : (file[p] # NoFile /\ isAllowedExt(p)) =>
             seen'[p] > StabilityThreshold]_vars
  /\ [][TickBegins => \A p \in hist.scanned : p \in tick'.left]_vars
  /\ [][\A p \in Paths :
          (FilterStep("range") /\ p \in tick.left /\ p \notin tick'.left) =>
          IF isAllowedExt(p)
          THEN tick'.pc = "GetStreamStatus" /\ tick'.file = p
          ELSE tick'.pc = "range" /\ seen'[p] = -1]_vars
  /\ [][(FilterStep("GetValue") /\ ~FilterReadFailed) =>
          IF AlreadyProcessed(redis.file_hash[Base(tick.file)], tick.hash,
                              tick.status)
          THEN tick'.pc = "range" /\ seen'[tick.file] = -1
          ELSE tick'.pc = "send" /\ tick'.file = tick.file]_vars
  /\ [][(tick.pc = "send" /\ tick'.pc # "send") =>
          \/ Emits /\ fileCh' = Append(fileCh, tick.file)
          \/ ~started']_vars

\* After a kill inside the chunk loop and the restart, the first stability
\* tick (no rescan has run yet) is at its send with the path of the stream
\* the killed run left incomplete.
C34_Witness ==
  /\ tick.pc = "send"
  /\ tick.file = VideoPath
  /\ Base(VideoPath) \in hist.killed
  /\ hashes[VideoPath] = NoEntry
  /\ redis.stream_status[Base(VideoPath)] # "completed"

\* A stability tick is over: the range of checkStableFiles has ended and the
\* deferred Unlock runs.
TickEnds == tick.pc = "range" /\ tick.left = {} /\ tick'.pc = "idle" /\ started'

\* C35: when a stability tick is over, seen holds no entry that was older
\* than the stability window when the tick began, whether its path was sent,
\* suppressed by filterFile or of another extension; the steps of the tick
\* change no other entry.
C35_TickRemovesStable ==
  /\ [][TickEnds => \A p \in tick.stable : seen[p] = -1 /\ seen'[p] = -1]_vars
  /\ [][TickEnds => (tick.stable \ (tick.dropped \cup tick.skipped))
                      \subseteq {q \in Paths : isAllowedExt(q)}]_vars
  /\ [][(tick' # tick /\ started') =>
          \A p \in Paths : seen'[p] # seen[p] =>
             (p \in tick.stable /\ seen'[p] = -1)]_vars

\* A tick that found both the video and the file of another extension
\* stable is at its end: it sent the video, dropped the other, and a third
\* entry there is none; the video's path is in the channel or with the worker.
C35_Witness ==
  /\ tick.pc = "range"
  /\ tick.left = {}
  /\ tick.stable = {VideoPath, NotePath}
  /\ tick.dropped = {NotePath}
  /\ tick.skipped = {}
  /\ hist.emitted[VideoPath]

\* No call of processFile for stream s is under way.
NoRunOn(s) ==
  \A w \in Workers : pc[w] \in Outside \/ Base(loc[w].file) # s

\* The highest index whose chunk_uploaded key is set for s; NoProgress when
\* none is.
HighestUploaded(s) ==
  IF redis.chunk_uploaded[s] = {} THEN NoProgress
  ELSE CHOOSE i \in redis.chunk_uploaded[s] :
         \A j \in redis.chunk_uploaded[s] : j <= i

\* The values a run has written to stream_progress before the write it is
\* about to make at line 123: the 0 of line 81 if it reset, and the indices
\* of the chunks it went through before this one.
WrittenBefore(w) ==
  (IF loc[w].resets = 2 THEN {0} ELSE {})
    \cup {loc[w].chunkMetas[k].index : k \in 1..(Len(loc[w].chunkMetas) - 1)}

\* C36: whenever no run is under way for a stream, stream_progress holds the
\* highest index whose chunk_uploaded key is set (and is absent when none
\* is); within one run every value written to stream_progress is greater
\* than all the values the run wrote before.
C36_ProgressTracksUploaded ==
  /\ [](\A s \in StreamIds :
          NoRunOn(s) => redis.stream_progress[s] = HighestUploaded(s))
  /\ [][\A w \in Workers :
          (pc[w] = "SetStreamProgress" /\ pc'[w] = "range") =>
             \A v \in WrittenBefore(w) : v < loc[w].idx]_vars

\* The object store holds every chunk of `content` under stream s, byte for
\* byte.
HoldsChunksOf(s, content) ==
  \A i \in ChunkSet(content) : s3.chunks[s][i] = ReadFull(content, i)

\* C37: whenever stream_status of a stream is "completed" and file_hash is
\* the fingerprint of a content, the object store holds every chunk of that
\* content under the stream, byte for byte.
C37_CompletedHoldsContent ==
  \A s \in StreamIds : \A c \in Contents :
    (/\ redis.stream_status[s] = "completed"
     /\ redis.file_hash[s] = fileHash(c)) => HoldsChunksOf(s, c)

\* stream_status of p's stream is "completed" and file_hash is the
\* fingerprint of `content`.
CompletedAt(p, content) ==
  /\ redis.stream_status[Base(p)] = "completed"
  /\ redis.file_hash[Base(p)] = fileHash(content)

\* C38: with fair scheduling, no failing adapter call and no cancellation, a
\* video that is in the watch directory and has stopped changing eventually
\* has stream_status "completed" with file_hash equal to its fingerprint.
C38_PipelineLiveness ==
  \A p \in Videos : \A c \in Contents :
    <>[](file[p] = c) => <>CompletedAt(p, c)

\* The workers between FilesInProgress.Inc() and FilesInProgress.Dec():
\* inside processFile, or back from it and about to decrement.
Counted == {w \in Workers : pc[w] \notin {"idle", "exited"}}

\* C39: the files-in-progress gauge is the number of workers between its
\* Inc before processFile and its Dec after it: it is never negative, never
\* more than the worker count, and 0 whenever every worker is idle or has
\* exited.
C39_GaugeCountsRuns ==
  /\ hist.filesInProgress = Cardinality(Counted)
  /\ hist.filesInProgress >= 0
  /\ hist.filesInProgress <= WorkerCount
  /\ (\A w \in Workers : pc[w] \in {"idle", "exited"}) =>
        hist.filesInProgress = 0

\* Both workers are inside the chunk loop of processFile after the signal,
\* the gauge at the worker count.
C39_Witness ==
  /\ hist.filesInProgress = WorkerCount
  /\ sup.cancelled
  /\ \A w \in Workers : pc[w] \in InLoop

==========================================================================
